---- MODULE Spec2Model ----
(***************************************************************************)
(* odinweb3: the request dispatch pipeline of ApiInterfaceBase             *)
(* (containers.py), with the Operation call wrapper (decorators.py), the   *)
(* MiddlewareList hook lists (data_structures.py), the content type        *)
(* resolution helpers (helpers.py, content_type_resolvers.py) and the      *)
(* Error / HttpResponse values they build (resources.py,                   *)
(* data_structures.py).                                                    *)
(*                                                                         *)
(* One behaviour is one ApiInterfaceBase, built with a debug flag and a    *)
(* middleware list, holding one Operation, and dispatching one request.    *)
(* Every hook call, the callback call, and every step of _dispatch is one  *)
(* action; what user code does inside a hook or the callback (return,      *)
(* write a path argument, raise) is the action's input.                    *)
(***************************************************************************)
EXTENDS Integers, Sequences, FiniteSets, TLC

\* ------------------------------------------------------------------ bounds

\* Longest middleware list given to ApiInterfaceBase(middleware=...).
MaxMiddleware == 2

\* ------------------------------------------------------- values of Python

\* Python's None where a string is expected, and the empty string.
None == "<None>"
Empty == ""

\* bool(x) of a string-or-None value: `x or y` picks y when x is None or "".
Truthy(x) == x \notin {None, Empty}

\* A dict with string keys is a function on a finite set of strings; a None
\* dict and the empty dict are both the empty function (HttpResponse.__init__
\* stores `headers or {}`).
EmptyDict == <<>>

\* d[k] = v on a dict.
SetItem(d, k, v) == [x \in (DOMAIN d) \cup {k} |-> IF x = k THEN v ELSE d[x]]

\* A status is an http.HTTPStatus member, a plain int, or None.
HTTPStatus(n) == [tag |-> "HTTPStatus", v |-> n]
IntStatus(n) == [tag |-> "int", v |-> n]
NoStatus == [tag |-> "None", v |-> 0]

\* HTTPStatus.phrase
phrase(n) ==
    CASE n = 200 -> "OK"
      [] n = 202 -> "Accepted"
      [] n = 204 -> "No Content"
      [] n = 400 -> "Bad Request"
      [] n = 405 -> "Method Not Allowed"
      [] n = 406 -> "Not Acceptable"
      [] n = 422 -> "Unprocessable Entity"
      [] n = 500 -> "Internal Server Error"
      [] n = 501 -> "Not Implemented"

\* HTTPStatus.description (empty for 422)
description(n) ==
    CASE n = 200 -> "Request fulfilled, document follows"
      [] n = 202 -> "Request accepted, processing continues off-line"
      [] n = 204 -> "Request fulfilled, nothing follows"
      [] n = 400 -> "Bad request syntax or unsupported method"
      [] n = 405 -> "Specified method is invalid for this resource"
      [] n = 406 -> "URI not available in preferred format"
      [] n = 422 -> Empty
      [] n = 500 -> "Server got itself in trouble"
      [] n = 501 -> "Server does not support this operation"

\* ------------------------------------------------------------- resources

\* An object that travels through the pipeline: Python None, an odin
\* Resource of the application ("Resource", with the status attribute that
\* dispatch_operation reads from a handle_500 substitute), an Error resource,
\* or an HttpResponse. One record shape holds them all: status is an int (0
\* when there is none), body is <<>> (None), <<"str", text>> or
\* <<"dumps", content type, resource>> (a codec's encoding of a resource),
\* and trail lists the post hooks that transformed the object.
NoneResource ==
    [kind |-> "None", status |-> 0, code |-> 0, message |-> None,
     developer_message |-> None, meta |-> None, body |-> <<>>,
     headers |-> EmptyDict, trail |-> <<>>]

\* An application resource; `name` tells one from another.
Resource(name, status) ==
    [kind |-> "Resource", status |-> status, code |-> 0, message |-> name,
     developer_message |-> None, meta |-> None, body |-> <<>>,
     headers |-> EmptyDict, trail |-> <<>>]

\* An Error whose code is the status plus the index, not scaled by 100.
Error_from_status_plain_code(status, code_index, message, developer_message, meta) ==
    [kind |-> "Error", status |-> status.v, code |-> status.v + code_index,
     message |-> IF Truthy(message) THEN message ELSE description(status.v),
     developer_message |-> IF Truthy(developer_message) THEN developer_message
                           ELSE description(status.v),
     meta |-> meta, body |-> <<>>, headers |-> EmptyDict, trail |-> <<>>]

\* resources.py Error.from_status(status, code_index, message,
\* developer_message, meta); status is an HTTPStatus member.
Error_from_status(status, code_index, message, developer_message, meta) ==
    [kind |-> "Error", status |-> status.v, code |-> (status.v * 100) + code_index,
     message |-> IF Truthy(message) THEN message ELSE description(status.v),
     developer_message |-> IF Truthy(developer_message) THEN developer_message
                           ELSE description(status.v),
     meta |-> meta, body |-> <<>>, headers |-> EmptyDict, trail |-> <<>>]

\* ------------------------------------------------------------ exceptions

\* The classes of exceptions.py, odin's ValidationError, and the builtins the
\* pipeline meets; Bases gives each class with its base classes.
Bases(cls) ==
    CASE cls = "ImmediateHttpResponse" -> {"ImmediateHttpResponse", "Exception"}
      [] cls = "HttpError" -> {"HttpError", "ImmediateHttpResponse", "Exception"}
      [] cls = "ValidationError" -> {"ValidationError", "Exception"}
      [] cls = "NotImplementedError" -> {"NotImplementedError", "RuntimeError", "Exception"}
      [] cls = "MultiValueDictKeyError" ->
            {"MultiValueDictKeyError", "KeyError", "LookupError", "Exception"}
      [] cls = "IndexError" -> {"IndexError", "LookupError", "Exception"}
      [] OTHER -> {cls, "Exception"}

IsInstance(e, cls) == cls \in Bases(e.cls)

\* No exception in flight.
NoException ==
    [cls |-> "None", resource |-> NoneResource, status |-> NoStatus,
     headers |-> EmptyDict, message_dict |-> None, text |-> Empty]

\* exceptions.py ImmediateHttpResponse(resource, status, headers)
ImmediateHttpResponse(resource, status, headers) ==
    [cls |-> "ImmediateHttpResponse", resource |-> resource, status |-> status,
     headers |-> headers, message_dict |-> None, text |-> Empty]

\* exceptions.py HttpError(status, code_index, message, developer_message,
\* meta, headers)
HttpError(status, code_index, message, developer_message, meta, headers) ==
    [cls |-> "HttpError",
     resource |-> Error_from_status(status, code_index, message, developer_message, meta),
     status |-> status, headers |-> headers,
     message_dict |-> None, text |-> Empty]

\* odin.exceptions.ValidationError: built from a field-to-message dict (it
\* then has a message_dict attribute, None here when it has not) or from a
\* message; text is str(e).
ValidationError(message_dict, text) ==
    [cls |-> "ValidationError", resource |-> NoneResource, status |-> NoStatus,
     headers |-> EmptyDict, message_dict |-> message_dict, text |-> text]

\* Any other exception class, with str(e).
PlainException(cls, text) ==
    [cls |-> cls, resource |-> NoneResource, status |-> NoStatus,
     headers |-> EmptyDict, message_dict |-> None, text |-> text]

\* The field-to-message mapping of the ValidationError below.
MessageDict == "{'name': ['This field is required.']}"

\* What user code (a hook, the callback) may raise.
UserExceptions ==
    { ImmediateHttpResponse(Resource("Redirect", 0), HTTPStatus(202),
                            [h \in {"Location"} |-> <<"/elsewhere">>]),
      HttpError(HTTPStatus(405), 0, None, None, None, EmptyDict),
      ValidationError(MessageDict, MessageDict),
      ValidationError(None, "['Value is too long.']"),
      PlainException("NotImplementedError", Empty),
      PlainException("ValueError", "secret detail") }

\* ------------------------------------------------------------ middleware

\* The middleware objects of the application. A defines a priority and all
\* five hooks; B defines no priority and only the dispatch and handle_500
\* hooks; "Operation" is the Operation itself, which Operation.__init__
\* appends to its own middleware list (priority 100, no hook of its own).
MiddlewareObjects == {"A", "B"}

\* The instances of a ResourceApi subclass that defines pre_dispatch and
\* post_dispatch (an authorisation check, say) and no priority.
Instances == {"I1", "I2"}

Attributes(m) ==
    CASE m = "A" -> {"priority", "pre_request", "pre_dispatch", "post_dispatch",
                     "post_request", "handle_500"}
      [] m = "B" -> {"pre_dispatch", "post_dispatch", "handle_500"}
      [] m = "Operation" -> {"priority"}
      [] m \in Instances -> {"pre_dispatch", "post_dispatch"}

hasattr(m, attr) == attr \in Attributes(m)

\* m.priority, for an object that has the attribute.
priority(m) == IF m = "Operation" THEN 100 ELSE 1

\* utils.py sort_by_priority's default_priority
default_priority == 10

\* The sort key of utils.py sort_by_priority: getattr(o, 'priority', default).
PriorityKey(m) == IF hasattr(m, "priority") THEN priority(m) ELSE default_priority

\* Python's sorted(seq, key, reverse): stable in both directions, elements
\* with equal keys keep their order in seq.
RECURSIVE sorted(_, _)
sorted(seq, reverse) ==
    IF seq = <<>> THEN <<>>
    ELSE LET front == sorted(SubSeq(seq, 1, Len(seq) - 1), reverse)
             x == seq[Len(seq)]
             Before(y) == IF reverse THEN PriorityKey(y) >= PriorityKey(x)
                                     ELSE PriorityKey(y) <= PriorityKey(x)
             After(y) == ~Before(y)
         IN SelectSeq(front, Before) \o <<x>> \o SelectSeq(front, After)

sort_by_priority_unreversed(iterable, reverse) == sorted(iterable, FALSE)

\* utils.py sort_by_priority(iterable, reverse)
sort_by_priority(iterable, reverse) == sorted(iterable, reverse)

\* The hook tuples of data_structures.py MiddlewareList: the objects of the
\* list that define the hook, in priority order (ascending for the pre
\* hooks, descending for the post hooks and handle_500).
pre_request(list) ==
    LET Defines(m) == hasattr(m, "pre_request")
    IN SelectSeq(sort_by_priority(list, FALSE), Defines)

pre_dispatch(list) ==
    LET Defines(m) == hasattr(m, "pre_dispatch")
    IN SelectSeq(sort_by_priority(list, FALSE), Defines)

post_dispatch(list) ==
    LET Defines(m) == hasattr(m, "post_dispatch")
    IN SelectSeq(sort_by_priority(list, TRUE), Defines)

handle_500_hooks(list) ==
    LET Defines(m) == hasattr(m, "handle_500")
    IN SelectSeq(sort_by_priority(list, TRUE), Defines)

post_request(list) ==
    LET Defines(m) == hasattr(m, "post_request")
    IN SelectSeq(sort_by_priority(list, TRUE), Defines)

\* --------------------------------------------------------- content types

\* A header value or content type is a string, held as the sequence of its
\* tokens so that split and strip act on it: <<"application/json", ";", " ",
\* "charset=utf8">>. <<>> is the empty string and NoneValue is Python's None.
NoneValue == <<None>>
JSON == <<"application/json">>
StrTruthy(value) == value \notin {NoneValue, <<>>}

\* value.split(';')[0]
RECURSIVE SplitFirst(_)
SplitFirst(value) ==
    IF value = <<>> \/ Head(value) = ";" THEN <<>>
    ELSE <<Head(value)>> \o SplitFirst(Tail(value))

\* value.strip()
RECURSIVE lstrip(_)
lstrip(value) ==
    IF value # <<>> /\ Head(value) = " " THEN lstrip(Tail(value)) ELSE value

RECURSIVE rstrip(_)
rstrip(value) ==
    IF value # <<>> /\ value[Len(value)] = " "
    THEN rstrip(SubSeq(value, 1, Len(value) - 1)) ELSE value

strip(value) == rstrip(lstrip(value))

\* helpers.py parse_content_type
parse_content_type(value) ==
    IF ~StrTruthy(value) THEN <<>> ELSE strip(SplitFirst(value))

\* dict.get(key) and dict.get(key, default) on a dict of strings
Get(d, key, default) == IF key \in DOMAIN d THEN d[key] ELSE default

\* content_type_resolvers.py: the three resolver factories
accepts_header == [resolver |-> "accepts_header", content_type |-> NoneValue]
content_type_header == [resolver |-> "content_type_header", content_type |-> NoneValue]
specific_default(content_type) ==
    [resolver |-> "specific_default", content_type |-> content_type]

\* Calling a resolver on a request.
Resolve(r, req) ==
    CASE r.resolver = "accepts_header" -> Get(req.headers, "accepts", NoneValue)
      [] r.resolver = "content_type_header" -> Get(req.headers, "content-type", NoneValue)
      [] r.resolver = "specific_default" -> r.content_type

\* A resolution in which the last resolver with a non-empty result decides.
RECURSIVE resolve_content_type_last(_, _)
resolve_content_type_last(type_resolvers, req) ==
    IF type_resolvers = <<>> THEN NoneValue
    ELSE LET n == Len(type_resolvers)
             content_type == parse_content_type(Resolve(type_resolvers[n], req))
         IN IF StrTruthy(content_type) THEN content_type
            ELSE resolve_content_type_last(SubSeq(type_resolvers, 1, n - 1), req)

\* helpers.py resolve_content_type: the first resolver whose parsed result is
\* non-empty decides; None when there is none.
RECURSIVE resolve_content_type(_, _)
resolve_content_type(type_resolvers, req) ==
    IF type_resolvers = <<>> THEN NoneValue
    ELSE LET content_type == parse_content_type(Resolve(Head(type_resolvers), req))
         IN IF StrTruthy(content_type) THEN content_type
            ELSE resolve_content_type(Tail(type_resolvers), req)

\* helpers.py resolve_content_type: the resolvers the loop calls, which are
\* those up to the one it returns at.
RECURSIVE resolvers_called(_, _)
resolvers_called(type_resolvers, req) ==
    IF type_resolvers = <<>> THEN <<>>
    ELSE IF StrTruthy(parse_content_type(Resolve(Head(type_resolvers), req)))
    THEN <<Head(type_resolvers)>>
    ELSE <<Head(type_resolvers)>> \o resolvers_called(Tail(type_resolvers), req)

\* A request chain that asks the accepts header first.
request_type_resolvers_accepts_first ==
    <<accepts_header, content_type_header, specific_default(JSON)>>

\* containers.py ApiInterfaceBase class attributes
request_type_resolvers ==
    <<content_type_header, accepts_header, specific_default(JSON)>>

response_type_resolvers ==
    <<accepts_header, content_type_header, specific_default(JSON)>>

remap_codecs == [t \in {<<"text/plain">>} |-> JSON]

\* DEFAULT_CODECS: the JSON codec; a codec is named by its CONTENT_TYPE.
registered_codecs == [t \in {JSON} |-> JSON]

\* ------------------------------------------------------------- responses

\* data_structures.py HttpResponse.__init__(body, status, headers): an
\* HTTPStatus is unwrapped to its int.
HttpResponse(body, status, headers) ==
    [kind |-> "HttpResponse", status |-> status.v, code |-> 0, message |-> None,
     developer_message |-> None, meta |-> None, body |-> body,
     headers |-> headers, trail |-> <<>>]

\* data_structures.py HttpResponse.from_status(status, headers)
from_status(status, headers) ==
    HttpResponse(<<"str", IF Truthy(description(status.v)) THEN description(status.v)
                          ELSE phrase(status.v)>>,
                 status, headers)

\* What the class HttpResponse defines (its __slots__ allow nothing else).
HttpResponseAttributes ==
    {"status", "body", "headers", "from_status", "__init__", "__getitem__",
     "__setitem__", "__repr__", "content_type"}

\* `status or default` on a status
StatusOr(status, default) ==
    IF status.tag = "None" \/ status.v = 0 THEN default ELSE status

\* helpers.py create_response(request, body, status, headers). The result
\* is the exception raised (NoException when none) and the value returned.
\* The codec's dumps is the opaque encoding <<"dumps", content type, body>>.
create_response(req, body, status, headers) ==
    IF body.kind = "None"
    THEN [raised |-> NoException,
          value |-> HttpResponse(<<>>, StatusOr(status, HTTPStatus(204)), headers)]
    ELSE IF "set_content_type" \notin HttpResponseAttributes
    THEN [raised |-> PlainException("AttributeError", "set_content_type"),
          value |-> NoneResource]
    ELSE [raised |-> NoException,
          value |-> LET response == HttpResponse(<<"dumps", req.response_codec, body>>,
                                                 StatusOr(status, HTTPStatus(200)), headers)
                    IN [response EXCEPT !.headers =
                           SetItem(@, "Content-Type", req.response_codec)]]

\* ------------------------------------------------------------ handle_500

Min(S) == CHOOSE x \in S : \A y \in S : x <= y

\* What a handle_500 hook does when called: return None, return a substitute
\* resource, or raise.
Handle500Outcomes == {"None", "resource", "raise"}

\* The substitute resource of hook m (it carries the status attribute that
\* dispatch_operation reads), and the exception hook m raises.
Substitute(m) == Resource(m, 503)
HookException(m) == PlainException("RuntimeError", m)

\* The fixed message of the generic error.
UnhandledMessage == "An unhandled error has been caught."

\* containers.py ApiInterfaceBase.handle_500(request, exception), for the
\* middleware list of the interface; outcomes[k] is what the k-th hook of
\* middleware.handle_500 does when called. The result names the hooks that
\* were called with what each did, the resource returned, the exception that
\* was logged (NoException when nothing was logged), and the exception that
\* leaves handle_500: none, `except Exception` catches what a hook raises.
handle_500(list, e, outcomes) ==
    LET hooks == handle_500_hooks(list)
        stops == {k \in 1..Len(hooks) : outcomes[k] # "None"}
        n == IF stops = {} THEN Len(hooks) ELSE Min(stops)
        returned == stops # {} /\ outcomes[n] = "resource"
        raised == stops # {} /\ outcomes[n] = "raise"
    IN [called |-> [k \in 1..n |-> <<hooks[k], outcomes[k]>>],
        resource |-> IF returned THEN Substitute(hooks[n])
                     ELSE Error_from_status(HTTPStatus(500), 0, UnhandledMessage, None, None),
        logged |-> IF returned THEN NoException
                   ELSE IF raised THEN HookException(hooks[n]) ELSE e,
        raised |-> NoException]

\* The outcomes a call of handle_500 may meet. A hook after the first one
\* that returns a resource or raises is never called, so what it would do
\* is left at "None".
Outcomes(list) ==
    {o \in [1..Len(handle_500_hooks(list)) -> Handle500Outcomes] :
        \A j \in DOMAIN o : \A k \in DOMAIN o :
            j < k /\ o[j] # "None" => o[k] = "None"}

\* -------------------------------------------------- dispatch_operation

\* The (resource, status, headers) triple dispatch_operation returns.
Triple(r, status, headers) == [resource |-> r, status |-> status, headers |-> headers]
NoTriple == Triple(NoneResource, NoStatus, EmptyDict)

\* Except clauses that ignore the debug flag: an exception of no known class
\* always goes to handle_500.
dispatch_operation_except_no_debug(e, debug, h) ==
    IF IsInstance(e, "ImmediateHttpResponse")
    THEN [raised |-> NoException, handled |-> FALSE,
          triple |-> Triple(e.resource, e.status, e.headers)]
    ELSE IF IsInstance(e, "ValidationError") \/ IsInstance(e, "NotImplementedError")
    THEN LET r == IF IsInstance(e, "NotImplementedError")
                  THEN Error_from_status(HTTPStatus(501), 0,
                                         "The method has not been implemented", None, None)
                  ELSE IF e.message_dict # None
                  THEN Error_from_status(HTTPStatus(400), 0, "Failed validation", None,
                                         e.message_dict)
                  ELSE Error_from_status(HTTPStatus(400), 0, e.text, None, None)
         IN [raised |-> NoException, handled |-> FALSE,
             triple |-> Triple(r, IntStatus(r.status), EmptyDict)]
    ELSE [raised |-> NoException, handled |-> TRUE,
          triple |-> Triple(h.resource, IntStatus(h.resource.status), EmptyDict)]

\* containers.py ApiInterfaceBase.dispatch_operation, its except clauses for
\* an exception e raised in the try block; h is what handle_500 gives for e.
\* The result tells the exception that leaves dispatch_operation
\* (NoException when it returns), whether handle_500 was called, and the
\* triple returned.
dispatch_operation_except(e, debug, h) ==
    IF IsInstance(e, "ImmediateHttpResponse")
    THEN [raised |-> NoException, handled |-> FALSE,
          triple |-> Triple(e.resource, e.status, e.headers)]
    ELSE IF IsInstance(e, "ValidationError")
    THEN LET r == IF e.message_dict # None
                  THEN Error_from_status(HTTPStatus(400), 0, "Failed validation", None,
                                         e.message_dict)
                  ELSE Error_from_status(HTTPStatus(400), 0, e.text, None, None)
         IN [raised |-> NoException, handled |-> FALSE,
             triple |-> Triple(r, IntStatus(r.status), EmptyDict)]
    ELSE IF IsInstance(e, "NotImplementedError")
    THEN LET r == Error_from_status(HTTPStatus(501), 0,
                                    "The method has not been implemented", None, None)
         IN [raised |-> NoException, handled |-> FALSE,
             triple |-> Triple(r, IntStatus(r.status), EmptyDict)]
    ELSE IF debug
    THEN [raised |-> e, handled |-> FALSE, triple |-> NoTriple]
    ELSE IF h.raised # NoException
    THEN [raised |-> h.raised, handled |-> TRUE, triple |-> NoTriple]
    ELSE [raised |-> NoException, handled |-> TRUE,
          triple |-> Triple(h.resource, IntStatus(h.resource.status), EmptyDict)]

\* ------------------------------------------------------------- _dispatch

\* bases.py HttpRequestBase.request_codec setter: an unset response codec
\* takes the request codec.
set_request_codec(req, codec) ==
    [req EXCEPT !.request_codec = codec,
                !.response_codec = IF @ = NoneValue THEN codec ELSE @]

\* A local variable of _dispatch that is not assigned yet.
Unset == <<"<unset>">>

\* A negotiation that looks for the response codec before the request codec.
negotiate_response_first(req) ==
    LET resolved_request == resolve_content_type(request_type_resolvers, req)
        request_type == Get(remap_codecs, resolved_request, resolved_request)
        resolved_response == resolve_content_type(response_type_resolvers, req)
        response_type == Get(remap_codecs, resolved_response, resolved_response)
    IN IF response_type \notin DOMAIN registered_codecs
       THEN [request |-> req, request_type |-> request_type,
             response_type |-> response_type, status |-> 406]
       ELSE IF request_type \notin DOMAIN registered_codecs
       THEN [request |-> req, request_type |-> request_type,
             response_type |-> Unset, status |-> 422]
       ELSE [request |-> [set_request_codec(req, registered_codecs[request_type])
                             EXCEPT !.response_codec = registered_codecs[response_type]],
             request_type |-> request_type,
             response_type |-> response_type, status |-> 0]

\* containers.py ApiInterfaceBase._dispatch, content negotiation: the request
\* with the codecs attached, the request_type and response_type computed,
\* and the status of the early return (0: none).
negotiate(req) ==
    LET resolved_request == resolve_content_type(request_type_resolvers, req)
        request_type == Get(remap_codecs, resolved_request, resolved_request)
        resolved_response == resolve_content_type(response_type_resolvers, req)
        response_type == Get(remap_codecs, resolved_response, resolved_response)
    IN IF request_type \notin DOMAIN registered_codecs
       THEN [request |-> req, request_type |-> request_type,
             response_type |-> Unset, status |-> 422]
       ELSE LET req1 == set_request_codec(req, registered_codecs[request_type])
            IN IF response_type \notin DOMAIN registered_codecs
               THEN [request |-> req1, request_type |-> request_type,
                     response_type |-> response_type, status |-> 406]
               ELSE [request |-> [req1 EXCEPT !.response_codec =
                                     registered_codecs[response_type]],
                     request_type |-> request_type,
                     response_type |-> response_type, status |-> 0]

\* ','.join(values)
RECURSIVE Join(_)
Join(values) ==
    IF values = <<>> THEN <<>>
    ELSE IF Len(values) = 1 THEN <<values[1]>>
    ELSE <<values[1], ",">> \o Join(Tail(values))

Range(seq) == {seq[k] : k \in DOMAIN seq}

\* A method check that accepts every method.
method_check_unchecked(op, req) == NoneResource

\* A method check whose 405 response carries no Allow header.
method_check_no_allow(op, req) ==
    IF req.method \notin Range(op.methods)
    THEN from_status(HTTPStatus(405), EmptyDict)
    ELSE NoneResource

\* containers.py ApiInterfaceBase._dispatch, the method check: the early 405
\* response, or NoneResource when the method is accepted.
method_check(op, req) ==
    IF req.method \notin Range(op.methods)
    THEN from_status(HTTPStatus(405), [h \in {"Allow"} |-> Join(op.methods)])
    ELSE NoneResource

\* ----------------------------------------------------------------- state

VARIABLES
    debug_enabled,  \* ApiInterfaceBase.debug_enabled
    middleware,     \* ApiInterfaceBase.middleware, the list as given
    operation,      \* the Operation dispatched: its methods and middleware
    request,        \* the request: method, headers, the codecs attached
    request_type,   \* `request_type` of _dispatch
    response_type,  \* `response_type` of _dispatch
    path_args,      \* the path_args dict of the request
    pc,             \* where the pipeline stands
    i,              \* position in the hook tuple being iterated
    resource,       \* `resource` of dispatch_operation / `response` of __call__
    exception,      \* the exception in flight (NoException: none)
    raised,         \* the exception raised last
    triple,         \* what dispatch_operation returned
    response,       \* `response` of dispatch
    result,         \* how dispatch ended: what it returned or raised
    handled,        \* the calls of handle_500 so far
    log,            \* the hook and callback calls so far, in order
    op,             \* an Operation declared in the body of a ResourceApi class
    api,            \* that ResourceApi class: its resource, its instances
    call,           \* the last call of the Operation: what it called, how it ended
    compared,       \* two Operations and what comparing them with == gave
    _operation_count,  \* Operation._operation_count
    operations,     \* the Operations constructed so far, in order of construction
    classes,        \* the ResourceApi classes Base and Sub(Base): their bodies
    yielded,        \* what operation_items yielded, and whether it raised
    listing,        \* a ListOperation, a request to it, and how execute ended
    root,           \* the root ApiContainer with its children
    base_path,      \* the path_base the tree is flattened with
    collated,       \* what method_collated_operations returned
    resolution,     \* a resolver chain, a request, what resolve_content_type gave
    url_path,       \* a path string and UrlPaths, what parse, format and + gave
    multi_dict      \* a MultiValueDict, the operations on it and what they gave

\* The variables of the dispatch pipeline, and those of the other objects.
dispatch_vars ==
    <<debug_enabled, middleware, operation, request, request_type,
      response_type, path_args, pc, i, resource, exception, raised, triple,
      response, result, handled, log>>
binding_vars == <<op, api, call>>
declaring_vars == <<_operation_count, operations, classes, yielded>>
tree_vars == <<root, base_path, collated>>
value_vars == <<resolution, url_path, multi_dict>>
others == <<binding_vars, compared, declaring_vars, listing, tree_vars, value_vars>>

vars == <<dispatch_vars, others>>

\* All sequences over S of length at most n.
SeqsUpTo(S, n) == UNION {[1..k -> S] : k \in 0..n}

\* The methods tuples an Operation is declared with.
OperationMethods == {<<"get">>, <<"get", "delete">>}

\* The middleware lists an Operation is declared with; __init__ appends the
\* Operation itself.
OperationMiddleware == {<<>>, <<"B">>}

\* The requests: a method, and a Content-Type and an Accepts header, each
\* present or not.
RequestMethods == {"get", "post"}
ContentTypeHeaders ==
    {NoneValue, <<"text/plain", ";", " ", "charset=utf8">>, <<"application/xml">>}
AcceptsHeaders == {NoneValue, <<"application/xml">>}

Headers(content_type, accepts) ==
    [h \in {k \in {"content-type", "accepts"} :
               IF k = "accepts" THEN accepts # NoneValue
               ELSE content_type # NoneValue}
       |-> IF h = "accepts" THEN accepts ELSE content_type]

NoRequest ==
    [method |-> None, headers |-> EmptyDict, request_codec |-> NoneValue,
     response_codec |-> NoneValue, current_operation |-> FALSE]

\* How dispatch ended: it returned value or raised exception, from its
\* `else` or its `except` clause.
Pending ==
    [how |-> "pending", via |-> None, value |-> NoneResource, exception |-> NoException]

Init ==
    /\ debug_enabled \in BOOLEAN
    /\ middleware \in SeqsUpTo(MiddlewareObjects, MaxMiddleware)
    /\ operation \in
         [methods : OperationMethods,
          middleware : {m \o <<"Operation">> : m \in OperationMiddleware}]
    /\ request = NoRequest
    /\ request_type = Unset
    /\ response_type = Unset
    /\ path_args = EmptyDict
    /\ pc = "start"
    /\ i = 1
    /\ resource = NoneResource
    /\ exception = NoException
    /\ raised = NoException
    /\ triple = NoTriple
    /\ response = NoneResource
    /\ result = Pending
    /\ handled = <<>>
    /\ log = <<>>
    /\ op = None
    /\ api = None
    /\ call = None
    /\ compared = None
    /\ _operation_count = 0
    /\ operations = <<>>
    /\ classes = None
    /\ yielded = None
    /\ listing = None
    /\ root = None
    /\ base_path = None
    /\ collated = None
    /\ resolution = None
    /\ url_path = None
    /\ multi_dict = None

\* ------------------------------------------------------------ the phases

\* The hook tuple a loop of the pipeline iterates.
Hooks(phase) ==
    CASE phase = "pre_request" -> pre_request(middleware)
      [] phase = "pre_dispatch" -> pre_dispatch(middleware)
      [] phase = "op_pre_dispatch" -> pre_dispatch(operation.middleware)
      [] phase = "op_post_dispatch" -> post_dispatch(operation.middleware)
      [] phase = "post_dispatch" -> post_dispatch(middleware)
      [] phase = "post_request" -> post_request(middleware)
      [] OTHER -> <<>>

Loops == {"pre_request", "pre_dispatch", "op_pre_dispatch", "op_post_dispatch",
          "post_dispatch", "post_request"}

\* The statement that follows a loop.
After(phase) ==
    CASE phase = "pre_request" -> "_dispatch"
      [] phase = "pre_dispatch" -> "op_pre_dispatch"
      [] phase = "op_pre_dispatch" -> "execute"
      [] phase = "op_post_dispatch" -> "post_dispatch"
      [] phase = "post_dispatch" -> "dispatch_operation_else"
      [] phase = "post_request" -> "dispatch_else"

\* Control reaching a loop over an empty tuple goes on to what follows it.
RECURSIVE Enter(_)
Enter(phase) ==
    IF phase \in Loops /\ Hooks(phase) = <<>> THEN Enter(After(phase)) ELSE phase

\* One call of a hook or of the callback, as logged: the phase, the object,
\* the path_args it was given, the entry it wrote (<<>>: none) and the
\* exception it raised (NoException: it returned).
Event(phase, m, seen, wr, e) ==
    [ph |-> phase, mw |-> m, seen |-> seen, wr |-> wr, raised |-> e,
     given |-> NoneResource, ret |-> NoneResource]

\* The call ev of a post hook or of the callback, with the object it was
\* given (None for the callback) and the object it returned.
Returning(ev, given, ret) == [ev EXCEPT !.given = given, !.ret = ret]

\* What the pre hooks of m write to path_args: A adds the entry `user`, B
\* rewrites the entry `id` that the router matched.
Writes(m) ==
    IF m = "A" THEN {<<"user", "A">>} ELSE {<<"id", "B">>}

\* A hook given a copy of the dict: what it writes is lost.
Write_to_copy(d, wr) == d

\* What the dict d holds after a hook given d itself made the write wr.
Write(d, wr) == IF wr = <<>> THEN d ELSE SetItem(d, wr[1], wr[2])

\* The calls of handle_500 hooks, as logged.
Handle500Events(called) ==
    [k \in 1..Len(called) |->
        Event("handle_500", called[k][1], path_args, <<>>,
              IF called[k][2] = "raise" THEN HookException(called[k][1])
              ELSE NoException)]

\* A pre hook loop: `for middleware in ...: middleware(request, path_args)`.
\* The hook writes to path_args and returns, or raises.
PreHook(phase, handler) ==
    /\ pc = phase
    /\ LET hooks == Hooks(phase)
           m == hooks[i]
       IN \/ \E wr \in Writes(m) :
               /\ path_args' = Write(path_args, wr)
               /\ log' = Append(log, Event(phase, m, path_args, wr, NoException))
               /\ IF i < Len(hooks)
                  THEN i' = i + 1 /\ pc' = phase
                  ELSE i' = 1 /\ pc' = Enter(After(phase))
               /\ UNCHANGED <<exception, raised>>
          \/ \E e \in UserExceptions :
               /\ exception' = e
               /\ raised' = e
               /\ log' = Append(log, Event(phase, m, path_args, <<>>, e))
               /\ pc' = handler
               /\ UNCHANGED <<path_args, i>>
    /\ UNCHANGED <<others, debug_enabled, middleware, operation, request, request_type,
                   response_type, resource,
                   triple, response, result, handled>>

\* What a post hook returns for the object it is given: the object, marked
\* as transformed by the hook.
Transform(m, obj) == [obj EXCEPT !.trail = Append(@, m)]

\* A post-dispatch loop that calls each hook and drops what it returns:
\* `middleware(request, resource)`.
PostHook_discarding(phase) ==
    /\ pc = phase
    /\ LET hooks == Hooks(phase)
           m == hooks[i]
       IN /\ log' = Append(log, Returning(Event(phase, m, path_args, <<>>, NoException),
                                          resource, Transform(m, resource)))
          /\ IF i < Len(hooks)
             THEN i' = i + 1 /\ pc' = phase
             ELSE i' = 1 /\ pc' = Enter(After(phase))
    /\ UNCHANGED <<others, debug_enabled, middleware, operation, request, request_type,
                   response_type, path_args, resource, exception, raised,
                   triple, response, result, handled>>

\* A post-dispatch loop: `resource = middleware(request, resource)`.
PostHook(phase) ==
    /\ pc = phase
    /\ LET hooks == Hooks(phase)
           m == hooks[i]
       IN \/ /\ resource' = Transform(m, resource)
             /\ log' = Append(log, Returning(Event(phase, m, path_args, <<>>, NoException),
                                             resource, Transform(m, resource)))
             /\ IF i < Len(hooks)
                THEN i' = i + 1 /\ pc' = phase
                ELSE i' = 1 /\ pc' = Enter(After(phase))
             /\ UNCHANGED <<exception, raised>>
          \/ \E e \in UserExceptions :
               /\ exception' = e
               /\ raised' = e
               /\ log' = Append(log, Returning(Event(phase, m, path_args, <<>>, e),
                                               resource, NoneResource))
               /\ pc' = "dispatch_operation_except"
               /\ UNCHANGED <<resource, i>>
    /\ UNCHANGED <<others, debug_enabled, middleware, operation, request, request_type,
                   response_type, path_args,
                   triple, response, result, handled>>

\* --------------------------------------------------------------- actions

\* containers.py dispatch, entry: the adapter calls dispatch(operation,
\* request, **path_args) with the arguments the router matched; the current
\* operation is attached to the request.
dispatch ==
    /\ pc = "start"
    /\ \E method \in RequestMethods, content_type \in ContentTypeHeaders,
          accepts \in AcceptsHeaders :
         request' = [NoRequest EXCEPT !.method = method,
                                      !.headers = Headers(content_type, accepts),
                                      !.current_operation = TRUE]
    /\ path_args' = [k \in {"id"} |-> "42"]
    /\ pc' = Enter("pre_request")
    /\ i' = 1
    /\ UNCHANGED <<others, debug_enabled, middleware, operation, request_type,
                   response_type, resource, exception, raised, triple, response,
                   result, handled, log>>

\* dispatch: `for middleware in self.middleware.pre_request`
dispatch_pre_request == PreHook("pre_request", "dispatch_except")

\* _dispatch: the request and response types are resolved and the codecs
\* attached, or the request ends with 422 or 406.
_dispatch_content_types ==
    /\ pc = "_dispatch"
    /\ LET n == negotiate(request)
       IN /\ request' = n.request
          /\ request_type' = n.request_type
          /\ response_type' = n.response_type
          /\ IF n.status = 0
             THEN pc' = "_dispatch_method" /\ UNCHANGED response
             ELSE /\ response' = from_status(HTTPStatus(n.status), EmptyDict)
                  /\ pc' = Enter("post_request")
    /\ i' = 1
    /\ UNCHANGED <<others, debug_enabled, middleware, operation, path_args, resource,
                   exception, raised, triple, result, handled, log>>

\* _dispatch: a resolver of the application raises.
_dispatch_resolver_raises ==
    /\ pc = "_dispatch"
    /\ exception' = PlainException("ValueError", "resolver")
    /\ raised' = exception'
    /\ pc' = "dispatch_except"
    /\ UNCHANGED <<others, debug_enabled, middleware, operation, request, request_type,
                   response_type, path_args, i,
                   resource, triple, response, result, handled, log>>

\* _dispatch: `if request.method not in operation.methods`
_dispatch_method ==
    /\ pc = "_dispatch_method"
    /\ LET early == method_check(operation, request)
       IN IF early.kind = "None"
          THEN pc' = Enter("pre_dispatch") /\ UNCHANGED response
          ELSE response' = early /\ pc' = Enter("post_request")
    /\ i' = 1
    /\ UNCHANGED <<others, debug_enabled, middleware, operation, request, request_type,
                   response_type, path_args,
                   resource, exception, raised, triple, result, handled, log>>

\* dispatch_operation: `for middleware in self.middleware.pre_dispatch`
dispatch_operation_pre_dispatch ==
    PreHook("pre_dispatch", "dispatch_operation_except")

\* Operation.__call__: `for middleware in self.middleware.pre_dispatch`
Operation_pre_dispatch == PreHook("op_pre_dispatch", "dispatch_operation_except")

\* What a callback may return: a resource, None, or an HttpResponse of its own.
ReturnValues ==
    {Resource("Widget", 0), NoneResource, HttpResponse(<<"str", "raw">>, HTTPStatus(202), EmptyDict)}

\* Operation.__call__: `response = self.execute(request, **path_args)`; the
\* callback gets the entries of path_args as keyword arguments and returns
\* or raises.
Operation_execute ==
    /\ pc = "execute"
    /\ \/ \E r \in ReturnValues :
            /\ resource' = r
            /\ log' = Append(log, Returning(Event("execute", "callback", path_args,
                                                  <<>>, NoException),
                                            NoneResource, r))
            /\ pc' = Enter("op_post_dispatch")
            /\ UNCHANGED <<exception, raised>>
       \/ \E e \in UserExceptions :
            /\ exception' = e
            /\ raised' = e
            /\ log' = Append(log, Event("execute", "callback", path_args, <<>>, e))
            /\ pc' = "dispatch_operation_except"
            /\ UNCHANGED resource
    /\ i' = 1
    /\ UNCHANGED <<others, debug_enabled, middleware, operation, request, request_type,
                   response_type, path_args,
                   triple, response, result, handled>>

\* Operation.__call__: `for middleware in self.middleware.post_dispatch`
Operation_post_dispatch == PostHook("op_post_dispatch")

\* dispatch_operation: `for middleware in self.middleware.post_dispatch`
dispatch_operation_post_dispatch == PostHook("post_dispatch")

\* dispatch_operation: `else: return resource, None, None`
dispatch_operation_else ==
    /\ pc = "dispatch_operation_else"
    /\ triple' = Triple(resource, NoStatus, EmptyDict)
    /\ pc' = "_dispatch_response"
    /\ UNCHANGED <<others, debug_enabled, middleware, operation, request, request_type,
                   response_type, path_args, i,
                   resource, exception, raised, response, result, handled, log>>

\* One call of handle_500, as recorded: who called it, the exception given,
\* the hooks called with what each did, and what the call gave.
Handled(by, e, h) ==
    [by |-> by, exception |-> e, called |-> h.called,
     resource |-> h.resource, logged |-> h.logged, raised |-> h.raised]

\* dispatch_operation: the except clauses.
dispatch_operation_handler ==
    /\ pc = "dispatch_operation_except"
    /\ \E outcomes \in Outcomes(middleware) :
         LET h == handle_500(middleware, exception, outcomes)
             x == dispatch_operation_except(exception, debug_enabled, h)
         IN /\ exception' = x.raised
            /\ raised' = IF x.raised # NoException THEN x.raised ELSE raised
            /\ IF x.raised # NoException
               THEN pc' = "dispatch_except" /\ UNCHANGED triple
               ELSE triple' = x.triple /\ pc' = "_dispatch_response"
            /\ IF x.handled
               THEN /\ handled' = Append(handled,
                                     Handled("dispatch_operation", exception, h))
                    /\ log' = log \o Handle500Events(h.called)
               ELSE UNCHANGED <<handled, log>>
    /\ UNCHANGED <<others, debug_enabled, middleware, operation, request, request_type,
                   response_type, path_args, i,
                   resource, response, result>>

\* _dispatch: the status is converted to an int, an HttpResponse is returned
\* as it is, anything else is encoded by create_response.
_dispatch_response ==
    /\ pc = "_dispatch_response"
    /\ LET status == IF triple.status.tag = "HTTPStatus"
                     THEN IntStatus(triple.status.v) ELSE triple.status
       IN IF triple.resource.kind = "HttpResponse"
          THEN /\ response' = triple.resource
               /\ pc' = Enter("post_request")
               /\ UNCHANGED <<exception, raised>>
          ELSE LET c == create_response(request, triple.resource, status,
                                        triple.headers)
               IN IF c.raised.cls = "None"
                  THEN /\ response' = c.value
                       /\ pc' = Enter("post_request")
                       /\ UNCHANGED <<exception, raised>>
                  ELSE /\ exception' = c.raised
                       /\ raised' = c.raised
                       /\ pc' = "dispatch_except"
                       /\ UNCHANGED response
    /\ i' = 1
    /\ UNCHANGED <<others, debug_enabled, middleware, operation, request, request_type,
                   response_type, path_args,
                   resource, triple, result, handled, log>>

\* dispatch: `for middleware in self.middleware.post_request`
dispatch_post_request ==
    /\ pc = "post_request"
    /\ LET hooks == Hooks("post_request")
           m == hooks[i]
       IN \/ /\ response' = Transform(m, response)
             /\ log' = Append(log, Returning(Event("post_request", m, path_args, <<>>,
                                                   NoException),
                                             response, Transform(m, response)))
             /\ IF i < Len(hooks)
                THEN i' = i + 1 /\ pc' = "post_request"
                ELSE i' = 1 /\ pc' = "dispatch_else"
             /\ UNCHANGED <<exception, raised>>
          \/ \E e \in UserExceptions :
               /\ exception' = e
               /\ raised' = e
               /\ log' = Append(log, Returning(Event("post_request", m, path_args, <<>>, e),
                                               response, NoneResource))
               /\ pc' = "dispatch_except"
               /\ UNCHANGED <<response, i>>
    /\ UNCHANGED <<others, debug_enabled, middleware, operation, request, request_type,
                   response_type, path_args,
                   resource, triple, result, handled>>

\* dispatch: `else: return response`
dispatch_else ==
    /\ pc = "dispatch_else"
    /\ result' = [how |-> "returned", via |-> "else", value |-> response,
                  exception |-> NoException]
    /\ pc' = "done"
    /\ UNCHANGED <<others, debug_enabled, middleware, operation, request, request_type,
                   response_type, path_args, i,
                   resource, exception, raised, triple, response, handled, log>>

\* An except clause that raises again whatever the debug flag is.
dispatch_except_reraises(e, debug, h) ==
    [how |-> "raised", via |-> "except", value |-> NoneResource, exception |-> e]

\* containers.py dispatch, `except Exception as ex`: what dispatch does with
\* the exception e, h being what handle_500 gives for it.
dispatch_except(e, debug, h) ==
    IF debug
    THEN [how |-> "raised", via |-> "except", value |-> NoneResource,
          exception |-> e]
    ELSE IF h.raised # NoException
    THEN [how |-> "raised", via |-> "except", value |-> NoneResource,
          exception |-> h.raised]
    ELSE [how |-> "returned", via |-> "except", value |-> h.resource,
          exception |-> NoException]

\* dispatch: the except clause.
dispatch_handler ==
    /\ pc = "dispatch_except"
    /\ \E outcomes \in Outcomes(middleware) :
         LET h == handle_500(middleware, exception, outcomes)
         IN /\ result' = dispatch_except(exception, debug_enabled, h)
            /\ IF debug_enabled
               THEN UNCHANGED <<handled, log>>
               ELSE /\ handled' = Append(handled,
                                         Handled("dispatch", exception, h))
                    /\ log' = log \o Handle500Events(h.called)
    /\ pc' = "done"
    /\ UNCHANGED <<others, debug_enabled, middleware, operation, request, request_type,
                   response_type, path_args, i,
                   resource, exception, raised, triple, response>>

Next ==
    \/ dispatch
    \/ dispatch_pre_request
    \/ _dispatch_content_types
    \/ _dispatch_resolver_raises
    \/ _dispatch_method
    \/ dispatch_operation_pre_dispatch
    \/ Operation_pre_dispatch
    \/ Operation_execute
    \/ Operation_post_dispatch
    \/ dispatch_operation_post_dispatch
    \/ dispatch_operation_else
    \/ dispatch_operation_handler
    \/ _dispatch_response
    \/ dispatch_post_request
    \/ dispatch_else
    \/ dispatch_handler

Spec == Init /\ [][Next]_vars

\* ------------------------------------------- the pipeline and the others

\* The dispatch pipeline at rest, while the other objects are exercised.
Idle ==
    /\ debug_enabled = FALSE
    /\ middleware = <<>>
    /\ operation = [methods |-> <<"get">>, middleware |-> <<"Operation">>]
    /\ request = NoRequest
    /\ request_type = Unset
    /\ response_type = Unset
    /\ path_args = EmptyDict
    /\ pc = "start"
    /\ i = 1
    /\ resource = NoneResource
    /\ exception = NoException
    /\ raised = NoException
    /\ triple = NoTriple
    /\ response = NoneResource
    /\ result = Pending
    /\ handled = <<>>
    /\ log = <<>>

\* No tree of containers.
NoTree ==
    /\ root = None
    /\ base_path = None
    /\ collated = None

\* No content type resolved, no UrlPath, no MultiValueDict.
NoValues ==
    /\ resolution = None
    /\ url_path = None
    /\ multi_dict = None

\* Nothing is declared.
NoDeclaring ==
    /\ _operation_count = 0
    /\ operations = <<>>
    /\ classes = None
    /\ yielded = None

\* ----------------------------------------------------------------- paths

\* The nodes of a UrlPath: a literal str, or a PathParam(name, type,
\* type_args).
Literal(s) == [name |-> s, type |-> "str", type_args |-> None]
PathParam(name, type, type_args) ==
    [name |-> name, type |-> type, type_args |-> type_args]
IsParam(node) == node.type # "str"

\* `node.name.format(**kwargs)` where kwargs is {'id': id}: the replacement
\* field {id} is filled in, a name without replacement field is unchanged.
format_name(name, id) == IF name = "{id}" THEN id ELSE name

\* UrlPath.apply_args(id=...)
apply_args(path, id) ==
    [k \in DOMAIN path |->
       IF IsParam(path[k])
       THEN PathParam(format_name(path[k].name, id), path[k].type, path[k].type_args)
       ELSE path[k]]

\* ------------------------------------------------ an Operation and its API

\* The resource classes: Item has the key field item_id, Note has none.
Resources == {"Item", "Note"}

\* getmeta(resource).key_field, then key_field.attname
key_field_attname(r) == IF r = "Item" THEN "item_id" ELSE None

\* Operation.resource; a is the ResourceApi class of the bound instance.
Operation_resource(o, a) ==
    IF o._resource # None THEN o._resource
    ELSE IF o._binding # None THEN a.resource
    ELSE None

\* Operation.key_field_name
key_field_name(o, a) ==
    LET r == Operation_resource(o, a)
    IN IF r # None /\ key_field_attname(r) # None
       THEN key_field_attname(r)
       ELSE "resource_id"

\* A MiddlewareList: the list, and the hook tuples its lazy properties have
\* stored on the object.
MiddlewareList(list) ==
    [list |-> list, cached |-> [pre_dispatch |-> Unset, post_dispatch |-> Unset]]

\* A lazy_property read: the value is computed on the first read, stored on
\* the object and read from there afterwards.
lazy_property(ml, name, value) ==
    IF ml.cached[name] = Unset THEN [ml EXCEPT !.cached[name] = value] ELSE ml

\* Operation.bind_to_instance(instance); a is the class of the instance.
bind_to_instance(o, instance, a) ==
    [o EXCEPT !.parent = instance, !._binding = instance,
              !.middleware.list = Append(@, instance)]

\* The methods argument of Operation.__init__: one Method, or an iterable
\* of them; `tuple(methods) if isinstance(methods, Iterable) else (methods,)`.
OneMethod(m) == [iterable |-> FALSE, value |-> <<m>>]
Methods(ms) == [iterable |-> TRUE, value |-> ms]
methods_tuple(methods) == methods.value

\* The Operation the fields of which are those Operation.__init__ assigns
\* for the arguments callback, path, methods, resource and middleware when
\* Operation._operation_count is count: unbound, in no container.
Declared(callback, path, methods, res, mw, count) ==
    LET fresh == [_resource |-> res, _binding |-> None]
    IN [callback |-> callback,
        url_path |-> path,
        path |-> apply_args(path, key_field_name(fresh, None)),
        methods |-> methods_tuple(methods),
        _resource |-> res,
        middleware |-> MiddlewareList(mw \o <<"Operation">>),
        sort_key |-> count,
        _binding |-> None,
        parent |-> None]

\* One call of a hook or of the callback: the positional and the keyword
\* arguments, and for a post hook the response it was given.
Called(fn, of, positional, keywords, given) ==
    [fn |-> fn, of |-> of, positional |-> positional, keywords |-> keywords,
     given |-> given]

\* What the callback does when called: return a value or raise.
Returns(v) == [raised |-> NoException, value |-> v]
Raising(e) == [raised |-> e, value |-> NoneResource]
CallbackOutcomes ==
    {Returns(Resource("Item", 0)),
     Raising(HttpError(HTTPStatus(405), 0, None, None, None, EmptyDict)),
     Raising(PlainException("KeyError", "item"))}

\* No call of the Operation was made yet.
NoCall ==
    [via |-> None, binding |-> None, args |-> <<>>, kwargs |-> EmptyDict,
     outcome |-> Returns(NoneResource), calls |-> <<>>, raised |-> NoException,
     value |-> NoneResource]

\* An execute that never passes the bound instance.
execute_unbound(o, req, args, kwargs, outcome) ==
    [called |-> Called("callback", "callback", <<req>> \o args, kwargs, NoneResource),
     raised |-> outcome.raised, value |-> outcome.value]

\* Operation.execute(request, *args, **path_args)
execute(o, req, args, kwargs, outcome) ==
    LET binding == o._binding
    IN [called |-> Called("callback", "callback",
                          IF binding # None THEN <<binding, req>> \o args
                          ELSE <<req>> \o args,
                          kwargs, NoneResource),
        raised |-> outcome.raised, value |-> outcome.value]

\* `for middleware in hooks: response = middleware(request, response)`
RECURSIVE apply_hooks(_, _)
apply_hooks(hooks, v) ==
    IF hooks = <<>> THEN v ELSE apply_hooks(Tail(hooks), Transform(hooks[1], v))

\* Operation.__call__(request, path_args); the hooks of the object raiser
\* raise, the callback does what outcome says.
Operation__call__(o, req, kwargs, raiser, outcome) ==
    LET m1 == lazy_property(o.middleware, "pre_dispatch", pre_dispatch(o.middleware.list))
        pre == m1.cached.pre_dispatch
        pre_stops == {k \in DOMAIN pre : pre[k] = raiser}
        npre == IF pre_stops = {} THEN Len(pre) ELSE Min(pre_stops)
        pre_calls == [k \in 1..npre |->
                        Called("pre_dispatch", pre[k], <<req, "path_args">>, EmptyDict,
                               NoneResource)]
        ex == execute(o, req, <<>>, kwargs, outcome)
        m2 == lazy_property(m1, "post_dispatch", post_dispatch(m1.list))
        post == m2.cached.post_dispatch
        post_stops == {k \in DOMAIN post : post[k] = raiser}
        npost == IF post_stops = {} THEN Len(post) ELSE Min(post_stops)
        post_calls == [k \in 1..npost |->
                         Called("post_dispatch", post[k], <<req>>, EmptyDict,
                                apply_hooks(SubSeq(post, 1, k - 1), ex.value))]
    IN IF pre_stops # {}
       THEN [op |-> [o EXCEPT !.middleware = m1], calls |-> pre_calls,
             raised |-> HookException(raiser), value |-> NoneResource]
       ELSE IF ex.raised # NoException
       THEN [op |-> [o EXCEPT !.middleware = m1],
             calls |-> Append(pre_calls, ex.called),
             raised |-> ex.raised, value |-> NoneResource]
       ELSE IF post_stops # {}
       THEN [op |-> [o EXCEPT !.middleware = m2],
             calls |-> Append(pre_calls, ex.called) \o post_calls,
             raised |-> HookException(raiser), value |-> NoneResource]
       ELSE [op |-> [o EXCEPT !.middleware = m2],
             calls |-> Append(pre_calls, ex.called) \o post_calls,
             raised |-> NoException, value |-> apply_hooks(post, ex.value)]

\* How many instances an Operation is bound to in a behaviour of SpecBind.
MaxBindings == 2

\* The paths an Operation is declared with: a literal path, a path with the
\* conventional key parameter, a path with a parameter of another name.
DeclaredPaths ==
    { <<Literal("items")>>,
      <<Literal("items"), PathParam("{id}", "Integer", None)>>,
      <<PathParam("pk", "String", None), Literal("notes")>> }

\* The keyword arguments of the calls, and the objects whose hooks raise.
PathArgs == [k \in {"resource_id"} |-> "42"]
Raisers == {"nobody", "I1", "B"}

BindInit ==
    /\ Idle
    /\ NoValues
    /\ \E path \in DeclaredPaths, res \in {None, "Item"}, mw \in OperationMiddleware :
         op = Declared("callback", path, OneMethod("get"), res, mw, 0)
    /\ api \in [resource : Resources, instances : {{}}]
    /\ call = NoCall
    /\ compared = None
    /\ NoDeclaring
    /\ listing = None
    /\ NoTree

Bindings(o) == {k \in DOMAIN o.middleware.list : o.middleware.list[k] \in Instances}

\* ResourceApi.__init__: the new instance binds every Operation of
\* self._operations, the list of the class, to itself.
ResourceApi__init__ ==
    /\ Cardinality(Bindings(op)) < MaxBindings
    /\ \E self \in Instances \ api.instances :
         /\ api' = [api EXCEPT !.instances = @ \cup {self}]
         /\ op' = bind_to_instance(op, self, api)
    /\ UNCHANGED <<dispatch_vars, value_vars, call, compared, declaring_vars, listing, tree_vars>>

\* Operation.bind_to_instance called on an instance that exists.
Operation_bind_to_instance ==
    /\ Cardinality(Bindings(op)) < MaxBindings
    /\ \E instance \in api.instances : op' = bind_to_instance(op, instance, api)
    /\ UNCHANGED <<dispatch_vars, value_vars, api, call, compared, declaring_vars, listing, tree_vars>>

\* One call of the Operation, as dispatch_operation makes it.
Operation_call ==
    /\ \E raiser \in Raisers, outcome \in CallbackOutcomes :
         LET r == Operation__call__(op, "request", PathArgs, raiser, outcome)
         IN /\ op' = r.op
            /\ call' = [via |-> "__call__", binding |-> op._binding, args |-> <<>>,
                        kwargs |-> PathArgs, outcome |-> outcome,
                        calls |-> r.calls, raised |-> r.raised, value |-> r.value]
    /\ UNCHANGED <<dispatch_vars, value_vars, api, compared, declaring_vars, listing, tree_vars>>

\* execute called with positional arguments of its own.
Operation_execute_args ==
    /\ \E args \in {<<>>, <<"extra">>}, outcome \in CallbackOutcomes :
         LET r == execute(op, "request", args, PathArgs, outcome)
         IN call' = [via |-> "execute", binding |-> op._binding, args |-> args,
                     kwargs |-> PathArgs, outcome |-> outcome,
                     calls |-> <<r.called>>, raised |-> r.raised, value |-> r.value]
    /\ UNCHANGED <<dispatch_vars, value_vars, api, op, compared, declaring_vars, listing, tree_vars>>

BindNext ==
    \/ ResourceApi__init__
    \/ Operation_bind_to_instance
    \/ Operation_call
    \/ Operation_execute_args

SpecBind == BindInit /\ [][BindNext]_vars

\* ------------------------------------------------- comparing Operations

\* UrlPath.__eq__: the tuples of nodes are equal.
UrlPath__eq__(a, b) == a = b

\* Operation.__eq__(other) for an other that is an Operation: path and
\* methods, the tuple, are compared with ==.
Operation__eq__(self, other) ==
    /\ UrlPath__eq__(self.path, other.path)
    /\ self.methods = other.methods

\* The methods arguments Operations are declared with.
MethodsArguments ==
    {OneMethod("get"), Methods(<<"get">>), Methods(<<"get", "post">>),
     Methods(<<"post", "get">>), Methods(<<"post">>)}

\* The Operations compared: declared one after the other with a callback of
\* their own each.
Declarations(callback, count) ==
    {Declared(callback, path, methods, res, <<>>, count) :
        path \in DeclaredPaths, methods \in MethodsArguments, res \in {None, "Item"}}

EqInit ==
    /\ Idle
    /\ NoValues
    /\ op = None
    /\ api = None
    /\ call = None
    /\ NoDeclaring
    /\ listing = None
    /\ NoTree
    /\ compared \in [self : Declarations("list_items", 0),
                     other : Declarations("get_items", 1),
                     result : {"not compared"}]

\* `self == other`
Operation_eq ==
    /\ compared.result = "not compared"
    /\ compared' = [compared EXCEPT
                      !.result = IF Operation__eq__(compared.self, compared.other)
                                 THEN "True" ELSE "False"]
    /\ UNCHANGED <<dispatch_vars, value_vars, binding_vars, declaring_vars, listing, tree_vars>>

\* `other == self`
Operation_eq_reflected ==
    /\ compared.result = "not compared"
    /\ compared' = [compared EXCEPT
                      !.result = IF Operation__eq__(compared.other, compared.self)
                                 THEN "True" ELSE "False"]
    /\ UNCHANGED <<dispatch_vars, value_vars, binding_vars, declaring_vars, listing, tree_vars>>

EqNext == Operation_eq \/ Operation_eq_reflected

SpecEq == EqInit /\ [][EqNext]_vars

\* ------------------------------------------- declaring ResourceApi classes

\* How many Operations are constructed in a behaviour of SpecDeclare.
MaxOperations == 3

\* Python's sorted(operations, key=lambda o: o.sort_key) on a list of
\* references into heap: stable, ascending.
RECURSIVE sorted_by_sort_key(_, _)
sorted_by_sort_key(refs, heap) ==
    IF refs = <<>> THEN <<>>
    ELSE LET front == sorted_by_sort_key(SubSeq(refs, 1, Len(refs) - 1), heap)
             x == refs[Len(refs)]
             NotAfter(y) == heap[y].sort_key <= heap[x].sort_key
             Later(y) == ~NotAfter(y)
         IN SelectSeq(front, NotAfter) \o <<x>> \o SelectSeq(front, Later)

\* ResourceApiMeta.__new__: attrs['_operations'] for a class body that
\* bound the Operations attrs, in that order, and whose parents have the
\* lists parents.
ResourceApiMeta__new__(attrs, parents, heap) ==
    LET RECURSIVE extended(_, _)
        extended(ops, ps) ==
            IF ps = <<>> THEN ops ELSE extended(ops \o ps[1], Tail(ps))
    IN sorted_by_sort_key(extended(attrs, parents), heap)

\* ResourceApi.operation_items(path_base) on an instance of a class with
\* the list _operations: `operation.op_paths(path_base)` is looked up on
\* the first Operation, which has no such attribute.
ResourceApi_operation_items(_operations, heap) ==
    IF _operations = <<>>
    THEN [raised |-> NoException, items |-> <<>>]
    ELSE [raised |-> PlainException("AttributeError", "op_paths"), items |-> <<>>]

\* The class statements: the body of Base, then the body of Sub(Base).
NoClasses ==
    [body |-> "Base",
     Base |-> [attrs |-> <<>>, _operations |-> <<>>],
     Sub |-> [attrs |-> <<>>, _operations |-> <<>>]]

NothingYielded == [called |-> FALSE, raised |-> NoException, items |-> <<>>]

DeclareInit ==
    /\ Idle
    /\ NoValues
    /\ op = None
    /\ call = None
    /\ compared = None
    /\ api \in [resource : Resources, instances : {{}}]
    /\ _operation_count = 0
    /\ operations = <<>>
    /\ classes = NoClasses
    /\ yielded = NothingYielded
    /\ listing = None
    /\ NoTree

\* An @operation(path, methods) in the class body being executed:
\* Operation.__init__ takes the counter as the sort key and increments it;
\* the body binds the Operation to a name.
operation_decorator ==
    /\ classes.body \in {"Base", "Sub"}
    /\ _operation_count < MaxOperations
    /\ \E path \in DeclaredPaths, methods \in {OneMethod("get"), Methods(<<"get", "post">>)} :
         operations' = Append(operations,
                              Declared(_operation_count, path, methods, None, <<>>,
                                       _operation_count))
    /\ _operation_count' = _operation_count + 1
    /\ classes' = [classes EXCEPT ![classes.body].attrs = Append(@, Len(operations) + 1)]
    /\ UNCHANGED <<dispatch_vars, value_vars, binding_vars, compared, yielded, listing, tree_vars>>

\* The end of a class body: ResourceApiMeta.__new__ creates the class.
class_created ==
    /\ classes.body \in {"Base", "Sub"}
    /\ classes' =
         IF classes.body = "Base"
         THEN [classes EXCEPT
                 !.Base._operations =
                     ResourceApiMeta__new__(classes.Base.attrs, <<>>, operations),
                 !.body = "Sub"]
         ELSE [classes EXCEPT
                 !.Sub._operations =
                     ResourceApiMeta__new__(classes.Sub.attrs,
                                            <<classes.Base._operations>>, operations),
                 !.body = "created"]
    /\ UNCHANGED <<dispatch_vars, value_vars, binding_vars, compared, _operation_count,
                   operations, yielded, listing, tree_vars>>

\* Sub(): ResourceApi.__init__ binds every Operation of Sub._operations to
\* the new instance.
Sub__init__ ==
    /\ classes.body = "created"
    /\ api.instances = {}
    /\ api' = [api EXCEPT !.instances = {"I1"}]
    /\ operations' =
         [k \in DOMAIN operations |->
            IF k \in Range(classes.Sub._operations)
            THEN bind_to_instance(operations[k], "I1", api)
            ELSE operations[k]]
    /\ UNCHANGED <<dispatch_vars, value_vars, op, call, compared, _operation_count, classes,
                   yielded, listing, tree_vars>>

\* list(instance.operation_items(path_base)) on the instance of Sub.
Sub_operation_items ==
    /\ api.instances # {}
    /\ ~yielded.called
    /\ LET r == ResourceApi_operation_items(classes.Sub._operations, operations)
       IN yielded' = [called |-> TRUE, raised |-> r.raised, items |-> r.items]
    /\ UNCHANGED <<dispatch_vars, value_vars, binding_vars, compared, _operation_count,
                   operations, classes, listing, tree_vars>>

DeclareNext ==
    \/ operation_decorator
    \/ class_created
    \/ Sub__init__
    \/ Sub_operation_items

SpecDeclare == DeclareInit /\ [][DeclareNext]_vars

\* ------------------------------------------------------- ListOperation

\* An int, or None where an attribute may be either.
IntValue(n) == [tag |-> "int", v |-> n]
NoInt == [tag |-> "None", v |-> 0]

\* A str, as the sequence of its characters.
Digits == {"0", "1", "2", "3", "4", "5", "6", "7", "8", "9"}
DigitValue(c) ==
    CASE c = "0" -> 0 [] c = "1" -> 1 [] c = "2" -> 2 [] c = "3" -> 3 [] c = "4" -> 4
      [] c = "5" -> 5 [] c = "6" -> 6 [] c = "7" -> 7 [] c = "8" -> 8 [] c = "9" -> 9

\* int(s) for a str s: an optional sign and decimal digits; anything else
\* raises ValueError.
Unsigned(s) == IF s # <<>> /\ s[1] \in {"-", "+"} THEN Tail(s) ELSE s
IsInteger(s) == Unsigned(s) # <<>> /\ \A k \in DOMAIN Unsigned(s) : Unsigned(s)[k] \in Digits
RECURSIVE Magnitude(_)
Magnitude(ds) ==
    IF ds = <<>> THEN 0
    ELSE 10 * Magnitude(SubSeq(ds, 1, Len(ds) - 1)) + DigitValue(ds[Len(ds)])
int(s) == IF s[1] = "-" THEN 0 - Magnitude(Unsigned(s)) ELSE Magnitude(Unsigned(s))

\* str(x), opaque.
str(x) == <<"str", x>>

\* A query string without the key.
Absent == <<"<absent>">>

\* The request classes: MockRequest implements HttpRequestBase, whose
\* properties include query and no GET; a request of another framework
\* has the attribute GET.
RequestClasses == {"MockRequest", "GETRequest"}
RequestAttributes(cls) ==
    IF cls = "MockRequest"
    THEN {"scheme", "host", "method", "path", "query", "headers", "cookies", "post",
          "body", "current_operation", "request_codec", "response_codec"}
    ELSE {"GET", "method", "response_codec"}

\* ListOperation.execute(request, **path_args) with empty path_args; the
\* callback does what outcome says.
ListOperation_execute(self, req, outcome) ==
    IF "GET" \notin RequestAttributes(req.cls)
    THEN [called |-> <<>>, raised |-> PlainException("AttributeError", "GET"),
          value |-> NoneResource]
    ELSE IF req.GET.offset # Absent /\ ~IsInteger(req.GET.offset)
    THEN [called |-> <<>>, raised |-> PlainException("ValueError", "offset"),
          value |-> NoneResource]
    ELSE IF req.GET.limit # Absent /\ ~IsInteger(req.GET.limit)
    THEN [called |-> <<>>, raised |-> PlainException("ValueError", "limit"),
          value |-> NoneResource]
    ELSE
    LET offset0 == IF req.GET.offset = Absent THEN self.default_offset
                   ELSE int(req.GET.offset)
        offset == IF offset0 < 0 THEN 0 ELSE offset0
        max_limit == self.max_limit
        limit0 == IF req.GET.limit = Absent THEN self.default_limit
                  ELSE int(req.GET.limit)
        limit == IF limit0 < 1 THEN 1
                 ELSE IF max_limit.tag = "int" /\ max_limit.v # 0 /\ limit0 > max_limit.v
                 THEN max_limit.v
                 ELSE limit0
        ex == execute(self, req.cls, <<>>, [offset |-> offset, limit |-> limit], outcome)
        c == create_response(req, ex.value, NoStatus,
                             [h \in {"X-Page-Limit", "X-Page-Offset", "X-Total-Count"} |->
                                 CASE h = "X-Page-Limit" -> str(limit)
                                   [] h = "X-Page-Offset" -> str(offset)
                                   [] h = "X-Total-Count" -> str(-1)])
    IN IF ex.raised # NoException
       THEN [called |-> <<ex.called>>, raised |-> ex.raised, value |-> NoneResource]
       ELSE IF ex.value.kind # "None"
       THEN [called |-> <<ex.called>>, raised |-> c.raised, value |-> c.value]
       ELSE [called |-> <<ex.called>>, raised |-> NoException, value |-> NoneResource]

\* The query values, the limits and the defaults of the listings.
OffsetValues == {Absent, <<"-", "5">>, <<"0">>, <<"7">>, <<"x">>}
LimitValues == {Absent, <<"5", "0", "0">>, <<"0">>, <<"1", "0", "0">>, <<"-", "1">>, <<"a">>}
MaxLimits == {NoInt, IntValue(100), IntValue(1)}
DefaultLimits == {50, 200}

\* The ListOperation: an Operation with the attributes of the listing.
ListOperation(default_limit, max_limit) ==
    [callback |-> "list_items", _binding |-> None, default_offset |-> 0,
     default_limit |-> default_limit, max_limit |-> max_limit]

NotExecuted == [called |-> <<>>, raised |-> NoException, value |-> NoneResource]

\* containers.py ApiInterfaceBase.dispatch_operation around the call of a
\* ListOperation, for an interface without middleware: what execute raises
\* meets the except clauses, what it returns is returned with no status.
dispatch_operation(executed, debug) ==
    IF executed.raised # NoException
    THEN dispatch_operation_except(executed.raised, debug,
                                   handle_500(<<>>, executed.raised, <<>>))
    ELSE [raised |-> NoException, handled |-> FALSE,
          triple |-> Triple(executed.value, NoStatus, EmptyDict)]

NotDispatched == [raised |-> NoException, handled |-> FALSE, triple |-> NoTriple]

ListInit ==
    /\ Idle
    /\ NoValues
    /\ op = None
    /\ api = None
    /\ call = None
    /\ compared = None
    /\ NoDeclaring
    /\ NoTree
    /\ \E cls \in RequestClasses, offset \in OffsetValues, limit \in LimitValues,
          max_limit \in MaxLimits, default_limit \in DefaultLimits :
         listing = [self |-> ListOperation(default_limit, max_limit),
                    request |-> [cls |-> cls, GET |-> [offset |-> offset, limit |-> limit],
                                 response_codec |-> JSON],
                    executed |-> FALSE,
                    outcome |-> Returns(NoneResource),
                    result |-> NotExecuted,
                    debug_enabled |-> FALSE,
                    dispatched |-> NotDispatched]

\* One call of execute on the request.
ListOperation_called ==
    /\ ~listing.executed
    /\ \E outcome \in CallbackOutcomes \cup {Returns(NoneResource)}, debug \in BOOLEAN :
         LET executed == ListOperation_execute(listing.self, listing.request, outcome)
         IN listing' = [listing EXCEPT
                          !.executed = TRUE,
                          !.outcome = outcome,
                          !.result = executed,
                          !.debug_enabled = debug,
                          !.dispatched = dispatch_operation(executed, debug)]
    /\ UNCHANGED <<dispatch_vars, value_vars, binding_vars, compared, declaring_vars, tree_vars>>

\* The call answered, the next request with the same query arrives.
ListOperation_next_request ==
    /\ listing.executed
    /\ listing' = [listing EXCEPT !.executed = FALSE,
                                  !.outcome = Returns(NoneResource),
                                  !.result = NotExecuted,
                                  !.debug_enabled = FALSE,
                                  !.dispatched = NotDispatched]
    /\ UNCHANGED <<dispatch_vars, value_vars, binding_vars, compared, declaring_vars, tree_vars>>

ListNext == ListOperation_called \/ ListOperation_next_request

SpecList == ListInit /\ [][ListNext]_vars

\* ------------------------------------------- resolving a content type

MaxResolvers == 3

\* What a resolver of an application may return: None, the empty string,
\* parameters only, blanks, a content type with or without parameters.
ResolverResults ==
    {NoneValue, <<>>, <<";", " ", "charset=utf8">>, <<" ">>,
     <<"application/json", ";", " ", "charset=utf8">>, <<"text/html">>}

\* The resolvers of a chain: the header resolvers and resolvers with a fixed
\* result.
Resolvers ==
    {accepts_header, content_type_header} \cup {specific_default(v) : v \in ResolverResults}

\* The chains: the standard chains of ApiInterfaceBase and every chain of
\* up to max resolvers.
Chains(max) ==
    {request_type_resolvers, response_type_resolvers}
        \cup UNION {[1..n -> Resolvers] : n \in 0..max}

\* The headers of the requests.
RequestHeaders ==
    {Headers(c, a) : c \in ContentTypeHeaders \cup {<<"text/html", ";", "q=1">>, <<>>},
                     a \in AcceptsHeaders \cup {JSON}}

NotResolved == [called |-> <<>>, value |-> NoneValue]

ResolveInit ==
    /\ Idle
    /\ op = None
    /\ api = None
    /\ call = None
    /\ compared = None
    /\ listing = None
    /\ NoDeclaring
    /\ NoTree
    /\ url_path = None
    /\ multi_dict = None
    /\ \E type_resolvers \in Chains(MaxResolvers), headers \in RequestHeaders :
         resolution = [type_resolvers |-> type_resolvers,
                       request |-> [NoRequest EXCEPT !.headers = headers],
                       default |-> NoneValue,
                       resolved |-> FALSE,
                       result |-> NotResolved]

\* resolve_content_type(type_resolvers, request), by a caller that has the
\* content type `default` in mind; the function has no parameter for it.
resolve_content_type_called ==
    /\ ~resolution.resolved
    /\ \E default \in {JSON, <<"text/html">>} :
         resolution' =
            [resolution EXCEPT
               !.default = default,
               !.resolved = TRUE,
               !.result = [called |-> resolvers_called(resolution.type_resolvers,
                                                      resolution.request),
                           value |-> resolve_content_type(resolution.type_resolvers,
                                                          resolution.request)]]
    /\ UNCHANGED <<dispatch_vars, binding_vars, compared, declaring_vars, listing,
                   tree_vars, url_path, multi_dict>>

\* The next request with the same headers arrives.
resolve_content_type_next_request ==
    /\ resolution.resolved
    /\ resolution' = [resolution EXCEPT !.default = NoneValue, !.resolved = FALSE,
                                        !.result = NotResolved]
    /\ UNCHANGED <<dispatch_vars, binding_vars, compared, declaring_vars, listing,
                   tree_vars, url_path, multi_dict>>

ResolveNext == resolve_content_type_called \/ resolve_content_type_next_request

SpecResolve == ResolveInit /\ [][ResolveNext]_vars

\* ----------------------------------------- parsing and formatting a path

\* A path string is held as the sequence of its tokens, each token standing
\* for its characters: <<"/", "a", "/", "{", "a", ":", "Integer", "}">> is
\* /a/{a:Integer}. "a", "Integer" and "Bogus" start with a letter, "9" is a
\* digit; all four match \w+.
WordTokens == {"a", "Integer", "Bogus", "9"}
LetterTokens == {"a", "Integer", "Bogus"}

\* constants.py DataType: the names of the members.
DataType == {"Integer", "Number", "String", "Boolean", "Array", "Object"}

\* url_path.rstrip('/')
RECURSIVE rstrip_slash(_)
rstrip_slash(text) ==
    IF text # <<>> /\ text[Len(text)] = "/"
    THEN rstrip_slash(SubSeq(text, 1, Len(text) - 1)) ELSE text

\* text.split('/'): the pieces between the slashes, at least one.
RECURSIVE split_slash(_)
split_slash(text) ==
    LET slashes == {k \in DOMAIN text : text[k] = "/"}
    IN IF slashes = {} THEN <<text>>
       ELSE <<SubSeq(text, 1, Min(slashes) - 1)>>
               \o split_slash(SubSeq(text, Min(slashes) + 1, Len(text)))

\* The longest run of \w tokens text starts with.
RECURSIVE Word(_)
Word(text) ==
    IF text # <<>> /\ Head(text) \in WordTokens
    THEN <<Head(text)>> \o Word(Tail(text)) ELSE <<>>

\* [a-zA-Z]\w* at the start of text: the identifier, <<>> when there is none.
Identifier(text) ==
    IF text # <<>> /\ Head(text) \in LetterTokens THEN Word(text) ELSE <<>>

Beyond(text, prefix) == SubSeq(text, Len(prefix) + 1, Len(text))

NoMatch == [matched |-> FALSE, name |-> NoneValue, type |-> NoneValue, arg |-> NoneValue]

\* PATH_NODE_RE.match(node) and m.groups(): the name, then the optional
\* groups `:type` and `:arg`; a group that took no part is None. The
\* argument is one or more of the characters `-^$+*:\w\[]|`, of which the
\* tokens have the words and the colon.
PATH_NODE_RE(node) ==
    IF Len(node) < 2 \/ node[1] # "{" \/ node[Len(node)] # "}" THEN NoMatch
    ELSE LET body == SubSeq(node, 2, Len(node) - 1)
             name == Identifier(body)
             rest == Beyond(body, name)
             param_type == IF rest = <<>> THEN <<>> ELSE Identifier(Tail(rest))
             rest2 == IF rest = <<>> THEN <<>> ELSE Beyond(Tail(rest), param_type)
         IN IF \E k \in DOMAIN body : body[k] \notin WordTokens \cup {":"} THEN NoMatch
            ELSE IF name = <<>> THEN NoMatch
            ELSE IF rest = <<>>
            THEN [matched |-> TRUE, name |-> name, type |-> NoneValue, arg |-> NoneValue]
            ELSE IF param_type # <<>> /\ rest2 = <<>>
            THEN [matched |-> TRUE, name |-> name, type |-> param_type, arg |-> NoneValue]
            ELSE IF param_type # <<>> /\ Len(rest2) >= 2
            THEN [matched |-> TRUE, name |-> name, type |-> param_type, arg |-> Tail(rest2)]
            ELSE IF Len(rest) >= 2
            THEN [matched |-> TRUE, name |-> name, type |-> NoneValue, arg |-> Tail(rest)]
            ELSE NoMatch

\* `Type[param_type]`: Type is typing.Type, whose subscription takes any
\* name, and None, and gives a generic alias; no KeyError is raised, so the
\* except clause (ValueError for an unknown type, DataType.Integer for an
\* omitted one) is never entered.
TypingType(param_type) == "typing.Type[...]"

\* The node parse appends for one piece of the path: a str, or the PathParam
\* of a piece with a brace, or the ValueError it raises.
parse_node(node) ==
    IF \A k \in DOMAIN node : node[k] \notin {"{", "}"}
    THEN [raised |-> NoException, value |-> Literal(node)]
    ELSE LET m == PATH_NODE_RE(node)
         IN IF ~m.matched
            THEN [raised |-> PlainException("ValueError", "Invalid path param"),
                  value |-> Literal(<<>>)]
            ELSE [raised |-> NoException,
                  value |-> PathParam(m.name, TypingType(m.type), m.arg)]

\* UrlPath.parse(url_path): the nodes, or the ValueError of the first piece
\* that raises.
UrlPath_parse(text) ==
    IF text = <<>> THEN [raised |-> NoException, value |-> <<>>]
    ELSE LET pieces == split_slash(rstrip_slash(text))
             nodes == [k \in DOMAIN pieces |-> parse_node(pieces[k])]
             failed == {k \in DOMAIN nodes : nodes[k].raised # NoException}
         IN IF failed # {}
            THEN [raised |-> nodes[Min(failed)].raised, value |-> <<>>]
            ELSE [raised |-> NoException, value |-> [k \in DOMAIN nodes |-> nodes[k].value]]

\* UrlPath.odinweb_node_formatter(path_node): the text, or the
\* AttributeError of `path_node.type.name` on a type that is no DataType
\* member.
odinweb_node_formatter(path_node) ==
    IF path_node.type \notin DataType
    THEN [raised |-> PlainException("AttributeError", "name"), value |-> <<>>]
    ELSE [raised |-> NoException,
          value |-> <<"{">> \o path_node.name \o <<":", path_node.type>>
                      \o (IF StrTruthy(path_node.type_args)
                          THEN <<":">> \o path_node.type_args ELSE <<>>)
                      \o <<"}">>]

\* '/'.join(pieces)
RECURSIVE join_slash(_)
join_slash(pieces) ==
    IF pieces = <<>> THEN <<>>
    ELSE IF Len(pieces) = 1 THEN pieces[1]
    ELSE pieces[1] \o <<"/">> \o join_slash(Tail(pieces))

\* UrlPath.format() with the default formatter.
UrlPath_format(nodes) ==
    IF nodes = <<Literal(<<>>)>> THEN [raised |-> NoException, value |-> <<"/">>]
    ELSE LET pieces == [k \in DOMAIN nodes |->
                           IF IsParam(nodes[k]) THEN odinweb_node_formatter(nodes[k])
                           ELSE [raised |-> NoException, value |-> nodes[k].name]]
             failed == {k \in DOMAIN pieces : pieces[k].raised # NoException}
         IN IF failed # {}
            THEN [raised |-> pieces[Min(failed)].raised, value |-> <<>>]
            ELSE [raised |-> NoException,
                  value |-> join_slash([k \in DOMAIN pieces |-> pieces[k].value])]

MaxPieces == 3

\* The pieces the path strings are made of: literal ones, parameters in each
\* form of the grammar, with a type that is no DataType member, and pieces
\* with a brace that the grammar rejects.
Pieces ==
    { <<>>, <<"a">>, <<"a", "9">>,
      <<"{", "a", "}">>, <<"{", "a", ":", "Integer", "}">>,
      <<"{", "a", "9", ":", "Integer", ":", "9", "}">>,
      <<"{", "a", ":", "Bogus", "}">>,
      <<"{", "a", ":", "9", "}">>, <<"{", "a", ":", "Integer", ":", "}">>,
      <<"{", "9", "}">>, <<"{", "a", ":", "}">>, <<"{", "}">>,
      <<"a", "{", "a", "}">>, <<"{", "a">> }

\* The path strings of up to max pieces.
PathStrings(max) == UNION {{join_slash(p) : p \in [1..n -> Pieces]} : n \in 0..max}

NotCalled == [called |-> FALSE, raised |-> NoException, value |-> <<>>]
Outcome(r) == [called |-> TRUE, raised |-> r.raised, value |-> r.value]

ParseInit ==
    /\ Idle
    /\ op = None
    /\ api = None
    /\ call = None
    /\ compared = None
    /\ listing = None
    /\ NoDeclaring
    /\ NoTree
    /\ resolution = None
    /\ multi_dict = None
    /\ \E text \in PathStrings(MaxPieces) :
         url_path = [text |-> text, parsed |-> NotCalled, formatted |-> NotCalled]

\* path = UrlPath.parse(text)
UrlPath_parse_called ==
    /\ ~url_path.parsed.called
    /\ url_path' = [url_path EXCEPT !.parsed = Outcome(UrlPath_parse(url_path.text))]
    /\ UNCHANGED <<dispatch_vars, binding_vars, compared, declaring_vars, listing,
                   tree_vars, resolution, multi_dict>>

\* path.format()
UrlPath_format_called ==
    /\ url_path.parsed.called
    /\ url_path.parsed.raised = NoException
    /\ ~url_path.formatted.called
    /\ url_path' = [url_path EXCEPT
                      !.formatted = Outcome(UrlPath_format(url_path.parsed.value))]
    /\ UNCHANGED <<dispatch_vars, binding_vars, compared, declaring_vars, listing,
                   tree_vars, resolution, multi_dict>>

ParseNext == UrlPath_parse_called \/ UrlPath_format_called

SpecParse == ParseInit /\ [][ParseNext]_vars

\* ------------------------------------------------- a tree of containers

\* data_structures.py NoPath = UrlPath()
NoPath == <<>>

\* `b and b[0] == ''`: the path b is absolute.
Absolute(b) == b # <<>> /\ b[1] = Literal("")

\* A sum that does not look at its right operand.
UrlPath__add__unchecked(a, b) == [raised |-> NoException, value |-> a \o b]

\* UrlPath.__add__(other) for an other that is a UrlPath, with _add_nodes:
\* the exception raised (NoException when none) and the sum.
UrlPath__add__(a, b) ==
    IF Absolute(b)
    THEN [raised |-> PlainException("ValueError", "Right hand argument cannot be absolute."),
          value |-> NoPath]
    ELSE [raised |-> NoException, value |-> a \o b]

\* UrlPath.__radd__(other) for an other that is a PathParam:
\* _add_nodes((other,), self._nodes)
UrlPath__radd__(self, other) == UrlPath__add__(<<other>>, self)

\* An optional argument: not given (None), or given.
NoArgument == [given |-> FALSE, value |-> NoPath]
Given(v) == [given |-> TRUE, value |-> v]

\* A child that is an Operation.
Leaf(o) == [kind |-> "Operation", op |-> o]

\* ApiContainer.__init__(*children, name, path_prefix): the children are
\* bound to the container; the prefix is the path_prefix given, else the
\* name parsed (a name without slash or brace is one literal node), else
\* NoPath.
ApiContainer__init__(cls, children, name, path_prefix) ==
    [kind |-> "ApiContainer",
     cls |-> cls,
     children |-> [k \in DOMAIN children |-> [children[k] EXCEPT !.parent = cls]],
     name |-> name,
     path_prefix |-> IF path_prefix.given THEN path_prefix.value
                     ELSE IF name # None THEN <<Literal(name)>>
                     ELSE NoPath,
     parent |-> None]

\* Operation.operation_items(path_prefix): one pair.
Operation_operation_items(o, path_prefix) ==
    LET sum == IF path_prefix.given THEN UrlPath__add__(path_prefix.value, o.path)
               ELSE [raised |-> NoException, value |-> o.path]
    IN IF sum.raised # NoException
       THEN [raised |-> sum.raised, items |-> <<>>]
       ELSE [raised |-> NoException, items |-> <<[path |-> sum.value, operation |-> o]>>]

\* An operation_items that hands its own path_base on to the children
\* without its prefix.
RECURSIVE ApiContainer_operation_items_unprefixed(_, _)
ApiContainer_operation_items_unprefixed(self, path_base) ==
    LET RECURSIVE yield_from(_)
        yield_from(children) ==
            IF children = <<>> THEN [raised |-> NoException, items |-> <<>>]
            ELSE LET child == children[1]
                     first == IF child.kind = "Operation"
                              THEN Operation_operation_items(child.op, path_base)
                              ELSE ApiContainer_operation_items_unprefixed(child, path_base)
                     rest == yield_from(Tail(children))
                 IN IF first.raised # NoException THEN first
                    ELSE [raised |-> rest.raised, items |-> first.items \o rest.items]
    IN yield_from(self.children)

\* ApiContainer.operation_items(path_base): what the generator yields, and
\* the exception that ends it (NoException when it ends by itself). A
\* UrlPath is always true, so `self.path_prefix or UrlPath()` is the prefix.
RECURSIVE ApiContainer_operation_items(_, _)
ApiContainer_operation_items(self, path_base) ==
    LET sum == IF path_base.given THEN UrlPath__add__(path_base.value, self.path_prefix)
               ELSE [raised |-> NoException, value |-> self.path_prefix]
        RECURSIVE yield_from(_)
        yield_from(children) ==
            IF children = <<>> THEN [raised |-> NoException, items |-> <<>>]
            ELSE LET child == children[1]
                     first == IF child.kind = "Operation"
                              THEN Operation_operation_items(child.op, Given(sum.value))
                              ELSE ApiContainer_operation_items(child, Given(sum.value))
                     rest == yield_from(Tail(children))
                 IN IF first.raised # NoException THEN first
                    ELSE [raised |-> rest.raised, items |-> first.items \o rest.items]
    IN IF sum.raised # NoException
       THEN [raised |-> sum.raised, items |-> <<>>]
       ELSE yield_from(self.children)

\* `for method in operation.methods: methods[method] = operation`
RECURSIVE assign_methods(_, _, _)
assign_methods(methods, ms, o) ==
    IF ms = <<>> THEN methods
    ELSE assign_methods(SetItem(methods, ms[1], o), Tail(ms), o)

\* A collation that starts the methods of a path anew for every pair:
\* `methods = paths[path] = {}`.
method_collated_operations_reset(self, path_base) ==
    LET r == ApiContainer_operation_items(self, path_base)
        RECURSIVE collate(_, _)
        collate(items, paths) ==
            IF items = <<>> THEN paths
            ELSE LET path == items[1].path
                     known == {k \in DOMAIN paths : UrlPath__eq__(paths[k].path, path)}
                     with == IF known = {}
                             THEN Append(paths, [path |-> path, methods |-> EmptyDict])
                             ELSE paths
                     at == CHOOSE k \in DOMAIN with : UrlPath__eq__(with[k].path, path)
                 IN collate(Tail(items),
                            [with EXCEPT ![at].methods =
                                assign_methods(EmptyDict, items[1].operation.methods,
                                               items[1].operation)])
    IN IF r.raised # NoException
       THEN [raised |-> r.raised, value |-> <<>>]
       ELSE [raised |-> NoException, value |-> collate(r.items, <<>>)]

\* ApiInterfaceBase.method_collated_operations(path_base): the OrderedDict as
\* the sequence of its keys, each with its dict of methods.
method_collated_operations(self, path_base) ==
    LET r == ApiContainer_operation_items(self, path_base)
        RECURSIVE collate(_, _)
        collate(items, paths) ==
            IF items = <<>> THEN paths
            ELSE LET path == items[1].path
                     known == {k \in DOMAIN paths : UrlPath__eq__(paths[k].path, path)}
                     with == IF known = {}
                             THEN Append(paths, [path |-> path, methods |-> EmptyDict])
                             ELSE paths
                     at == CHOOSE k \in DOMAIN with : UrlPath__eq__(with[k].path, path)
                 IN collate(Tail(items),
                            [with EXCEPT ![at].methods =
                                assign_methods(@, items[1].operation.methods,
                                               items[1].operation)])
    IN IF r.raised # NoException
       THEN [raised |-> r.raised, value |-> <<>>]
       ELSE [raised |-> NoException, value |-> collate(r.items, <<>>)]

\* How many Operations are added to the tree in a behaviour of SpecTree.
MaxLeaves == 2

\* The paths the Operations of the tree are declared with: two relative
\* ones and an absolute one.
LeafPaths ==
    { <<Literal("items")>>,
      <<Literal("items"), PathParam("{id}", "Integer", None)>>,
      <<Literal(""), Literal("items")>> }

\* The containers the root is constructed with: none, the version v1, or v1
\* and a container whose prefix is the absolute /v2.
InnerContainers ==
    { <<>>,
      <<ApiContainer__init__("ApiVersion", <<>>, "v1", NoArgument)>>,
      <<ApiContainer__init__("ApiVersion", <<>>, "v1", NoArgument),
        ApiContainer__init__("ApiContainer", <<>>, None,
                             Given(<<Literal(""), Literal("v2")>>))>> }

\* The roots: an ApiInterfaceBase with the absolute prefix /api, or a plain
\* ApiContainer with no prefix.
Roots ==
    {ApiContainer__init__("ApiInterfaceBase", children, "api",
                          Given(<<Literal(""), Literal("api")>>)) :
        children \in InnerContainers}
    \cup {ApiContainer__init__("ApiContainer", children, None, NoArgument) :
             children \in InnerContainers}

NotCollated == [called |-> FALSE, raised |-> NoException, value |-> <<>>]

TreeInit ==
    /\ Idle
    /\ NoValues
    /\ op = None
    /\ api = None
    /\ call = None
    /\ compared = None
    /\ listing = None
    /\ _operation_count = 0
    /\ operations = <<>>
    /\ classes = None
    /\ yielded = <<>>
    /\ root \in Roots
    /\ base_path \in {NoArgument, Given(<<Literal(""), Literal("site")>>)}
    /\ collated = NotCollated

\* The containers of the tree an Operation can be added to: 0 is the root.
Containers == {0} \cup {k \in DOMAIN root.children : root.children[k].kind = "ApiContainer"}

\* @container.operation(path, methods) on a container of the tree:
\* Operation(callback, path, methods, ...) is appended to its children.
ApiContainer_operation ==
    /\ _operation_count < MaxLeaves
    /\ yielded = <<>>
    /\ ~collated.called
    /\ \E k \in Containers, path \in LeafPaths,
          methods \in {OneMethod("get"), Methods(<<"get", "post">>)} :
         LET o == Declared(_operation_count, path, methods, None, <<>>, _operation_count)
         IN root' = IF k = 0
                    THEN [root EXCEPT !.children = Append(@, Leaf(o))]
                    ELSE [root EXCEPT !.children[k].children = Append(@, Leaf(o))]
    /\ _operation_count' = _operation_count + 1
    /\ UNCHANGED <<dispatch_vars, value_vars, binding_vars, compared, listing, operations,
                   classes, yielded, base_path, collated>>

\* list(root.operation_items(path_base))
root_operation_items ==
    /\ Len(yielded) < 2
    /\ yielded' = Append(yielded, ApiContainer_operation_items(root, base_path))
    /\ UNCHANGED <<dispatch_vars, value_vars, binding_vars, compared, listing, _operation_count,
                   operations, classes, tree_vars>>

\* root.method_collated_operations(path_base) on a root that is an
\* ApiInterfaceBase.
root_method_collated_operations ==
    /\ root.cls = "ApiInterfaceBase"
    /\ ~collated.called
    /\ LET r == method_collated_operations(root, base_path)
       IN collated' = [called |-> TRUE, raised |-> r.raised, value |-> r.value]
    /\ UNCHANGED <<dispatch_vars, value_vars, binding_vars, compared, listing, declaring_vars,
                   root, base_path>>

TreeNext ==
    \/ ApiContainer_operation
    \/ root_operation_items
    \/ root_method_collated_operations

SpecTree == TreeInit /\ [][TreeNext]_vars

\* ------------------------------------------------------ adding UrlPaths

\* The operands: the empty path, the root, absolute and relative paths,
\* with and without parameter, and a relative path with an empty piece.
UrlPaths ==
    { NoPath, <<Literal("")>>, <<Literal(""), Literal("api")>>,
      <<Literal(""), Literal("api"), PathParam("pk", "String", None)>>,
      <<Literal("items")>>, <<Literal("items"), PathParam("{id}", "Integer", None)>>,
      <<PathParam("{id}", "Integer", None)>>, <<Literal("items"), Literal("")>> }

AddInit ==
    /\ Idle
    /\ op = None
    /\ api = None
    /\ call = None
    /\ compared = None
    /\ listing = None
    /\ NoDeclaring
    /\ NoTree
    /\ resolution = None
    /\ multi_dict = None
    /\ \E self \in UrlPaths, other \in UrlPaths :
         url_path = [self |-> self, other |-> other, constructed |-> <<self, other>>,
                     left |-> NoPath, right |-> NoPath, sum |-> NotCalled]

\* self + other, both UrlPaths
UrlPath__add__called ==
    /\ ~url_path.sum.called
    /\ url_path' = [url_path EXCEPT
                      !.left = url_path.self, !.right = url_path.other,
                      !.sum = Outcome(UrlPath__add__(url_path.self, url_path.other))]
    /\ UNCHANGED <<dispatch_vars, binding_vars, compared, declaring_vars, listing,
                   tree_vars, resolution, multi_dict>>

\* param + self, a PathParam and a UrlPath
UrlPath__radd__called ==
    /\ ~url_path.sum.called
    /\ \E param \in {PathParam("pk", "String", None)} :
         url_path' = [url_path EXCEPT
                        !.left = <<param>>, !.right = url_path.self,
                        !.sum = Outcome(UrlPath__radd__(url_path.self, param))]
    /\ UNCHANGED <<dispatch_vars, binding_vars, compared, declaring_vars, listing,
                   tree_vars, resolution, multi_dict>>

\* The sum is dropped; the operands are added again.
UrlPath_sum_dropped ==
    /\ url_path.sum.called
    /\ url_path' = [url_path EXCEPT !.left = NoPath, !.right = NoPath, !.sum = NotCalled]
    /\ UNCHANGED <<dispatch_vars, binding_vars, compared, declaring_vars, listing,
                   tree_vars, resolution, multi_dict>>

AddNext == UrlPath__add__called \/ UrlPath__radd__called \/ UrlPath_sum_dropped

SpecAdd == AddInit /\ [][AddNext]_vars

\* -------------------------------------------------------- MultiValueDict

MaxCalls == 3

\* The dict is a function from its keys to their lists of values. What a
\* method returns is a value, a list, or None.
Value(v) == [kind |-> "value", v |-> v, list |-> <<>>]
List(l) == [kind |-> "list", v |-> 0, list |-> l]
NoValue == [kind |-> "None", v |-> 0, list |-> <<>>]

\* What a method does: the dict afterwards, the exception it raises
\* (NoException: none) and what it returns.
Done(d, e, returned) == [d |-> d, raised |-> e, returned |-> returned]

\* dict.pop(self, key) without its result, and list[-1]
DelItem(d, key) == [x \in (DOMAIN d) \ {key} |-> d[x]]
LastOf(l) == l[Len(l)]

\* MultiValueDict.__init__(mapping) for a dict whose values are lists or
\* single values (empty lists are skipped), for a list of pairs, and for
\* None. A dict is given as a function to [is_list, list], a single value
\* as the list of it.
MultiValueDict__init__(mapping) ==
    IF mapping.kind = "dict"
    THEN [key \in {k \in DOMAIN mapping.dict :
                     ~(mapping.dict[k].is_list /\ mapping.dict[k].list = <<>>)}
            |-> mapping.dict[key].list]
    ELSE IF mapping.kind = "pairs" /\ mapping.pairs # <<>>
    THEN [key \in {mapping.pairs[j][1] : j \in DOMAIN mapping.pairs}
            |-> LET of_key == SelectSeq(mapping.pairs, LAMBDA pair : pair[1] = key)
                IN [j \in DOMAIN of_key |-> of_key[j][2]]]
    ELSE EmptyDict

\* MultiValueDict.__getitem__(key): LookupError covers the KeyError of an
\* absent key and the IndexError of an empty list.
MultiValueDict__getitem__(d, key) ==
    IF key \in DOMAIN d /\ d[key] # <<>>
    THEN Done(d, NoException, Value(LastOf(d[key])))
    ELSE Done(d, PlainException("MultiValueDictKeyError", key), NoValue)

\* MultiValueDict.__setitem__(key, value)
MultiValueDict__setitem__(d, key, value) ==
    Done(SetItem(d, key, <<value>>), NoException, NoValue)

\* An add that puts the new value in front of the others.
MultiValueDict_add_first(d, key, value) ==
    Done(SetItem(d, key, <<value>> \o (IF key \in DOMAIN d THEN d[key] ELSE <<>>)),
         NoException, NoValue)

\* MultiValueDict.add(key, value)
MultiValueDict_add(d, key, value) ==
    Done(SetItem(d, key, Append(IF key \in DOMAIN d THEN d[key] ELSE <<>>, value)),
         NoException, NoValue)

\* MultiValueDict.get(key, default) with type_ None
MultiValueDict_get(d, key, default) ==
    LET rv == MultiValueDict__getitem__(d, key)
    IN IF IsInstance(rv.raised, "KeyError") THEN Done(d, NoException, default) ELSE rv

\* MultiValueDict.getlist(key) with type_ None
MultiValueDict_getlist(d, key) ==
    IF key \notin DOMAIN d THEN Done(d, NoException, List(<<>>))
    ELSE Done(d, NoException, List(d[key]))

\* MultiValueDict.setlist(key, new_list)
MultiValueDict_setlist(d, key, new_list) ==
    Done(SetItem(d, key, new_list), NoException, NoValue)

\* MultiValueDict.setdefault(key, default)
MultiValueDict_setdefault(d, key, default) ==
    IF key \notin DOMAIN d
    THEN Done(MultiValueDict__setitem__(d, key, default).d, NoException, Value(default))
    ELSE MultiValueDict__getitem__(d, key)

\* MultiValueDict.setlistdefault(key, default_list); default_list is <<>>
\* for None.
MultiValueDict_setlistdefault(d, key, default_list) ==
    IF key \notin DOMAIN d
    THEN Done(SetItem(d, key, default_list), NoException, List(default_list))
    ELSE Done(d, NoException, List(d[key]))

\* list(MultiValueDict.items()) and list(MultiValueDict.values()) with
\* multi False: values[-1] of an empty list raises IndexError. The pairs
\* are given as the function from key to last value.
MultiValueDict_items(d) ==
    IF \E key \in DOMAIN d : d[key] = <<>>
    THEN [raised |-> PlainException("IndexError", "list index out of range"),
          returned |-> EmptyDict]
    ELSE [raised |-> NoException, returned |-> [key \in DOMAIN d |-> LastOf(d[key])]]

\* A default argument: NotDefined, or a value.
NotDefined == [defined |-> FALSE, v |-> 0]
Default(v) == [defined |-> TRUE, v |-> v]

\* MultiValueDict.pop(key, default): dict.pop removes the key before [-1]
\* is taken of its list.
MultiValueDict_pop(d, key, default) ==
    IF key \in DOMAIN d /\ d[key] # <<>>
    THEN Done(DelItem(d, key), NoException, Value(LastOf(d[key])))
    ELSE IF ~default.defined
    THEN Done(DelItem(d, key), PlainException("MultiValueDictKeyError", key), NoValue)
    ELSE Done(DelItem(d, key), NoException, Value(default.v))

\* MultiValueDict.poplist(key)
MultiValueDict_poplist(d, key) ==
    IF key \in DOMAIN d THEN Done(DelItem(d, key), NoException, List(d[key]))
    ELSE Done(d, NoException, List(<<>>))

\* The keys and values used, and the mappings the dict is constructed from:
\* None, {'a': [1, 2], 'b': []}, {'a': 1}, [('a', 1), ('b', 2), ('a', 2)].
Keys == {"a", "b"}
Values == {1, 2}
Mappings ==
    { [kind |-> "None", dict |-> EmptyDict, pairs |-> <<>>],
      [kind |-> "dict", pairs |-> <<>>,
       dict |-> [k \in Keys |-> IF k = "a" THEN [is_list |-> TRUE, list |-> <<1, 2>>]
                                ELSE [is_list |-> TRUE, list |-> <<>>]]],
      [kind |-> "dict", pairs |-> <<>>,
       dict |-> [k \in {"a"} |-> [is_list |-> FALSE, list |-> <<1>>]]],
      [kind |-> "pairs", dict |-> EmptyDict,
       pairs |-> << <<"a", 1>>, <<"b", 2>>, <<"a", 2>> >>] }

\* The call made last: the method, its arguments, the dict before it, and
\* how it ended.
Call(method, key, value, list, default, before, done) ==
    [method |-> method, key |-> key, value |-> value, list |-> list,
     default |-> default, before |-> before, raised |-> done.raised,
     returned |-> done.returned]

Constructed(mapping) ==
    Call("__init__", "", 0, <<>>, NotDefined, EmptyDict,
         Done(EmptyDict, NoException, NoValue))

MultiInit ==
    /\ Idle
    /\ op = None
    /\ api = None
    /\ call = None
    /\ compared = None
    /\ listing = None
    /\ NoDeclaring
    /\ NoTree
    /\ resolution = None
    /\ url_path = None
    /\ \E mapping \in Mappings :
         multi_dict = [d |-> MultiValueDict__init__(mapping), calls |-> 0,
                       last |-> Constructed(mapping)]

\* One call of a method of the dict.
Called_on(method, key, value, list, default, done) ==
    /\ multi_dict.calls < MaxCalls
    /\ multi_dict' = [d |-> done.d, calls |-> multi_dict.calls + 1,
                      last |-> Call(method, key, value, list, default, multi_dict.d, done)]
    /\ UNCHANGED <<dispatch_vars, binding_vars, compared, declaring_vars, listing,
                   tree_vars, resolution, url_path>>

\* d.add(key, value)
add_called ==
    \E key \in Keys, value \in Values :
       Called_on("add", key, value, <<>>, NotDefined,
                 MultiValueDict_add(multi_dict.d, key, value))

\* d[key] = value
setitem_called ==
    \E key \in Keys, value \in Values :
       Called_on("__setitem__", key, value, <<>>, NotDefined,
                 MultiValueDict__setitem__(multi_dict.d, key, value))

\* d.setlist(key, new_list)
setlist_called ==
    \E key \in Keys, new_list \in {<<>>, <<2, 1>>} :
       Called_on("setlist", key, 0, new_list, NotDefined,
                 MultiValueDict_setlist(multi_dict.d, key, new_list))

\* d.setdefault(key, default)
setdefault_called ==
    \E key \in Keys, default \in {2} :
       Called_on("setdefault", key, default, <<>>, NotDefined,
                 MultiValueDict_setdefault(multi_dict.d, key, default))

\* d.setlistdefault(key) and d.setlistdefault(key, default_list)
setlistdefault_called ==
    \E key \in Keys, default_list \in {<<>>, <<1>>} :
       Called_on("setlistdefault", key, 0, default_list, NotDefined,
                 MultiValueDict_setlistdefault(multi_dict.d, key, default_list))

\* d.pop(key) and d.pop(key, default)
pop_called ==
    \E key \in Keys, default \in {NotDefined, Default(9)} :
       Called_on("pop", key, 0, <<>>, default,
                 MultiValueDict_pop(multi_dict.d, key, default))

\* d.poplist(key)
poplist_called ==
    \E key \in Keys :
       Called_on("poplist", key, 0, <<>>, NotDefined,
                 MultiValueDict_poplist(multi_dict.d, key))

MultiNext ==
    \/ add_called
    \/ setitem_called
    \/ setlist_called
    \/ setdefault_called
    \/ setlistdefault_called
    \/ pop_called
    \/ poplist_called

SpecMulti == MultiInit /\ [][MultiNext]_vars

\* ---------------------------------------------------- what the claims use

\* The phases of the dispatch stage: the hooks and the callback that
\* dispatch_operation and Operation.__call__ run.
DispatchPhases ==
    {"pre_dispatch", "op_pre_dispatch", "execute", "op_post_dispatch", "post_dispatch"}

\* The events of the log in the phases given, in order.
EventsIn(phases) == SelectSeq(log, LAMBDA ev : ev.ph \in phases)

DispatchRan == EventsIn(DispatchPhases) # <<>>
Invoked == EventsIn({"execute"}) # <<>>

\* The content types of the request, from its headers: the first header
\* present, without its parameters, or the JSON default; text/plain is
\* taken as JSON.
TypeFrom(names) ==
    LET present == SelectSeq(names, LAMBDA h : h \in DOMAIN request.headers)
        t == IF present = <<>> THEN JSON ELSE <<request.headers[present[1]][1]>>
    IN IF t = <<"text/plain">> THEN JSON ELSE t
RequestTypeOf == TypeFrom(<<"content-type", "accepts">>)
ResponseTypeOf == TypeFrom(<<"accepts", "content-type">>)

Supported(t) == t = JSON

\* Both codecs were resolved and attached to the request.
CodecsResolved ==
    /\ Supported(RequestTypeOf) /\ request.request_codec = JSON
    /\ Supported(ResponseTypeOf) /\ request.response_codec = JSON
    /\ request_type = RequestTypeOf /\ response_type = ResponseTypeOf

MethodFound == \E k \in DOMAIN operation.methods : operation.methods[k] = request.method

\* The response _dispatch returned is the one of an early return with the
\* status s: dispatch_operation was not called.
EarlyReturn(s) ==
    /\ response.kind = "HttpResponse"
    /\ response.status = s
    /\ response.body[1] = "str"
    /\ triple = NoTriple

\* ------------------------------------------------------------------- C1

\* C1: the callback and the root and operation pre-/post-dispatch hooks run
\* only after both a request codec and a response codec were resolved and
\* the request method was found among the operation's methods; when
\* _dispatch ends the request with 422, 406 or 405, none of them has run,
\* and it does so whenever a codec is missing or the method is not found.
C1_DispatchAfterValidation ==
    /\ DispatchRan => CodecsResolved /\ MethodFound
    /\ \A s \in {422, 406, 405} : EarlyReturn(s) => ~DispatchRan /\ ~Invoked
    /\ pc \in {"_dispatch_response", "post_request", "dispatch_else"}
         /\ ~(CodecsResolved /\ MethodFound)
       => \E s \in {422, 406, 405} : EarlyReturn(s)

\* A request went through the whole dispatch stage: root pre-dispatch hook,
\* callback, root post-dispatch hook, after both codecs and the method passed.
C1_Witness ==
    /\ pc = "done"
    /\ EventsIn({"pre_dispatch"}) # <<>>
    /\ Invoked
    /\ EventsIn({"post_dispatch"}) # <<>>
    /\ CodecsResolved /\ MethodFound

\* ------------------------------------------------------------------- C2

Last(seq) == seq[Len(seq)]

\* The outcomes of the hooks one call of handle_500 called.
OutcomesOf(h) == {h.called[k][2] : k \in DOMAIN h.called}

\* C2: with debug disabled dispatch always returns and never raises,
\* wherever the exception came from and whatever the handle_500 hooks do;
\* when an exception reached the outer guard, what dispatch returns is what
\* handle_500 returned for that exception.
C2_NoEscape ==
    pc = "done" /\ ~debug_enabled =>
        /\ result.how = "returned"
        /\ result.exception = NoException
        /\ (exception # NoException) <=> (result.via = "except")
        /\ result.via = "else" => result.value = response
        /\ result.via = "except" =>
              /\ handled # <<>>
              /\ Last(handled).by = "dispatch"
              /\ Last(handled).exception = exception
              /\ result.value = Last(handled).resource
              /\ result.value.kind \in {"Error", "Resource"}

\* A post-request hook raised, the outer guard called handle_500, a
\* handle_500 hook raised too, and dispatch returned the generic error.
C2_Witness ==
    /\ pc = "done" /\ ~debug_enabled
    /\ result.how = "returned" /\ result.via = "except"
    /\ handled # <<>> /\ log # <<>>
    /\ Last(log).ph = "handle_500"
    /\ \E k \in DOMAIN log : log[k].ph = "post_request" /\ log[k].raised # NoException
    /\ "raise" \in OutcomesOf(Last(handled))
    /\ result.value.kind = "Error" /\ result.value.status = 500

\* ------------------------------------------------------------------- C3

\* The exception classes dispatch_operation turns into a response itself.
Immediate(e) == e.cls \in {"ImmediateHttpResponse", "HttpError"}
Classified(e) ==
    Immediate(e) \/ e.cls \in {"ValidationError", "NotImplementedError"}

\* C3: in debug and non-debug mode alike, and without handle_500 being
\* called, dispatch_operation returns for an ImmediateHttpResponse (HttpError
\* included) raised during the dispatch stage exactly the exception's
\* resource, status and headers; for a ValidationError an Error of status 400
\* and code 40000, with the exception's message_dict as meta when it has one
\* and the error text as message otherwise; for a NotImplementedError an
\* Error of status 501 and code 50100. After an exception was raised in the
\* dispatch stage no further hook of the stage and no callback runs.
C3_Classification ==
    /\ pc = "_dispatch_response" /\ Classified(raised) =>
          /\ handled = <<>>
          /\ EventsIn({"handle_500"}) = <<>>
          /\ Immediate(raised) =>
                /\ triple.resource = raised.resource
                /\ triple.status = raised.status
                /\ triple.headers = raised.headers
          /\ raised.cls = "ValidationError" =>
                /\ triple.resource.kind = "Error"
                /\ triple.resource.status = 400
                /\ triple.resource.code = 40000
                /\ triple.status = [tag |-> "int", v |-> 400]
                /\ IF raised.message_dict # None
                   THEN triple.resource.meta = raised.message_dict
                   ELSE /\ triple.resource.message = raised.text
                        /\ triple.resource.meta = None
          /\ raised.cls = "NotImplementedError" =>
                /\ triple.resource.kind = "Error"
                /\ triple.resource.status = 501
                /\ triple.resource.code = 50100
                /\ triple.status = [tag |-> "int", v |-> 501]
    /\ pc = "dispatch_operation_except" => raised = exception /\ raised # NoException
    /\ \A k \in DOMAIN log :
          log[k].ph \in DispatchPhases /\ log[k].raised # NoException =>
              \A j \in (k + 1)..Len(log) : log[j].ph \notin DispatchPhases

\* In debug mode a root post-dispatch hook raised a ValidationError without
\* a message_dict after the callback had run, and dispatch_operation
\* returned the Error 400 carrying the error text.
C3_Witness ==
    /\ debug_enabled
    /\ pc = "_dispatch_response"
    /\ raised.cls = "ValidationError" /\ raised.message_dict = None
    /\ log # <<>> /\ Last(log).ph = "post_dispatch" /\ Last(log).raised = raised
    /\ Invoked
    /\ triple.resource.code = 40000 /\ triple.resource.message = raised.text

\* ------------------------------------------------------------------- C4

\* The calls in the dispatch stage that raised an exception of no class
\* dispatch_operation knows.
UnclassifiedRaises ==
    {k \in DOMAIN log : /\ log[k].ph \in DispatchPhases
                        /\ log[k].raised # NoException
                        /\ ~Classified(log[k].raised)}

\* C4: any other exception raised during the dispatch stage goes, with
\* debug disabled, to handle_500, and dispatch_operation returns the resource
\* handle_500 gave together with that resource's status; with debug enabled
\* it leaves dispatch_operation and dispatch unchanged, and neither
\* handle_500 nor any hook is called for it.
C4_Unclassified ==
    /\ pc = "_dispatch_response" /\ UnclassifiedRaises # {} =>
          /\ ~debug_enabled
          /\ Len(handled) = 1
          /\ handled[1].by = "dispatch_operation"
          /\ handled[1].exception = raised
          /\ \A k \in UnclassifiedRaises : log[k].raised = raised
          /\ triple.resource = handled[1].resource
          /\ triple.status = [tag |-> "int", v |-> triple.resource.status]
    /\ ~debug_enabled /\ UnclassifiedRaises # {}
          /\ pc \notin {"dispatch_operation_except"} => handled # <<>>
    /\ debug_enabled => handled = <<>> /\ EventsIn({"handle_500"}) = <<>>
    /\ debug_enabled /\ pc = "done" /\ UnclassifiedRaises # {} =>
          /\ result.how = "raised"
          /\ UnclassifiedRaises = {Len(log)}
          /\ result.exception = Last(log).raised
          /\ response = NoneResource

\* With debug enabled the callback raised a ValueError and dispatch raised
\* that same exception, no hook having run after the callback.
C4_Witness ==
    /\ debug_enabled /\ pc = "done"
    /\ log # <<>> /\ Last(log).ph = "execute"
    /\ Last(log).raised.cls = "ValueError"
    /\ result.how = "raised" /\ result.exception = Last(log).raised

\* ------------------------------------------------------------------- C5

\* The members of the interface's middleware list that define handle_500,
\* in descending order of priority (10 for a member without one), members
\* of equal priority in list order.
Key(m) == IF "priority" \in Attributes(m) THEN priority(m) ELSE 10
Descending ==
    LET having == SelectSeq(middleware, LAMBDA m : "handle_500" \in Attributes(m))
        Count(seq, m) == Cardinality({k \in DOMAIN seq : seq[k] = m})
    IN CHOOSE d \in [DOMAIN having -> MiddlewareObjects] :
           /\ \A m \in MiddlewareObjects : Count(d, m) = Count(having, m)
           /\ \A j \in DOMAIN d : \A k \in DOMAIN d : j < k => Key(d[j]) >= Key(d[k])

\* C5: handle_500 calls the handle_500 hooks of the interface's middleware
\* in descending priority order, each getting its chance as long as the
\* ones before returned nothing, and returns the first non-empty resource a
\* hook returns. An exception a hook raises replaces the one being handled
\* (it is the one logged) and does not leave handle_500. When no hook
\* returned a resource the result is the generic Error: status 500, code
\* 50000, the fixed message, nothing of the handled exception's text.
C5_Handle500 ==
    \A c \in DOMAIN handled :
        LET h == handled[c]
            n == Len(h.called)
            last == IF n = 0 THEN "None" ELSE h.called[n][2]
        IN /\ n <= Len(Descending)
           /\ \A j \in 1..n : h.called[j][1] = Descending[j]
           /\ \A j \in 1..(n - 1) : h.called[j][2] = "None"
           /\ n < Len(Descending) => last # "None"
           /\ h.raised = NoException
           /\ IF last = "resource"
              THEN /\ h.resource.kind = "Resource"
                   /\ h.resource.message = h.called[n][1]
                   /\ h.logged = NoException
              ELSE /\ h.resource.kind = "Error"
                   /\ h.resource.status = 500
                   /\ h.resource.code = 50000
                   /\ h.resource.message = "An unhandled error has been caught."
                   /\ h.resource.meta = None
                   /\ h.exception.text # Empty =>
                         h.exception.text \notin
                             {h.resource.message, h.resource.developer_message}
                   /\ IF last = "raise"
                      THEN /\ h.logged.cls = "RuntimeError"
                           /\ h.logged.text = h.called[n][1]
                           /\ h.logged # h.exception
                      ELSE h.logged = h.exception

\* The list was given as A (priority 1) then B (no priority, so 10);
\* handle_500 called B first, which returned nothing, then A, whose resource
\* it returned.
C5_Witness ==
    /\ middleware = <<"A", "B">>
    /\ handled # <<>>
    /\ Last(handled).called = <<(<<"B", "None">>), (<<"A", "resource">>)>>
    /\ Last(handled).resource.message = "A"
    /\ Last(handled).exception.cls = "ValueError"

\* ------------------------------------------------------------------- C6

\* C6: once _dispatch has resolved the request type, a request type without
\* a registered codec ends the request with 422, before the response type is
\* looked at; a request type with a codec and a response type without one
\* ends it with 406; in both cases the operation is not invoked.
C6_Negotiation ==
    request_type # Unset =>
        /\ request_type = RequestTypeOf
        /\ IF ~Supported(RequestTypeOf)
           THEN /\ EarlyReturn(422)
                /\ response_type = Unset
                /\ request.request_codec = NoneValue
                /\ ~DispatchRan /\ ~Invoked
           ELSE /\ response_type = ResponseTypeOf
                /\ request.request_codec = JSON
                /\ IF ~Supported(ResponseTypeOf)
                   THEN EarlyReturn(406) /\ ~DispatchRan /\ ~Invoked
                   ELSE ~EarlyReturn(422) /\ ~EarlyReturn(406)

\* Neither the request type nor the response type (both application/xml)
\* has a codec: the request ended with 422 and the callback did not run.
C6_Witness ==
    /\ pc = "done"
    /\ ~Supported(RequestTypeOf) /\ ~Supported(ResponseTypeOf)
    /\ result.how = "returned" /\ result.value.status = 422
    /\ EarlyReturn(422) /\ ~Invoked

\* ------------------------------------------------------------------- C7

\* The values of the operation's methods, joined by commas.
AllowValue ==
    IF operation.methods = <<"get">> THEN <<"get">>
    ELSE IF operation.methods = <<"get", "delete">> THEN <<"get", ",", "delete">>
    ELSE <<>>

\* C7: a request whose types both have codecs and whose method is not
\* among the operation's methods ends with 405 and an Allow header holding
\* the string values of those methods joined by commas ("get" for a GET-only
\* operation); the callback is not invoked. A method that is among them is
\* never answered by that early 405.
C7_MethodNotAllowed ==
    /\ CodecsResolved /\ ~MethodFound /\ pc # "_dispatch_method" =>
          /\ EarlyReturn(405)
          /\ DOMAIN response.headers = {"Allow"}
          /\ response.headers["Allow"] = AllowValue
          /\ ~Invoked /\ ~DispatchRan
    /\ MethodFound => ~EarlyReturn(405)

\* A GET-only operation received a POST: dispatch returned the 405 response
\* with Allow: get, and the callback did not run.
C7_Witness ==
    /\ pc = "done"
    /\ operation.methods = <<"get">> /\ request.method = "post"
    /\ result.how = "returned"
    /\ result.value.kind = "HttpResponse" /\ result.value.status = 405
    /\ result.value.headers = [h \in {"Allow"} |-> <<"get">>]
    /\ ~Invoked

\* ------------------------------------------------------------------- C8

\* The calls of user code (hooks other than handle_500 hooks, the callback)
\* that raised.
Raises == {k \in DOMAIN log : log[k].ph # "handle_500" /\ log[k].raised # NoException}

\* The status an error is to end the request with: the status of the early
\* return; for the one exception user code raised in the dispatch stage, 400
\* for a ValidationError, 501 for a NotImplementedError, the exception's own
\* status for an HttpError, 500 for any other class but a plain
\* ImmediateHttpResponse; 0 when the request did not end in such an error.
ErrorStatus ==
    IF \E s \in {422, 406, 405} : EarlyReturn(s) THEN response.status
    ELSE IF Raises # {} /\ Raises \subseteq UnclassifiedRaises THEN 500
    ELSE IF \E k \in DOMAIN log : Raises = {k} /\ log[k].ph \in DispatchPhases
    THEN LET e == log[CHOOSE k \in Raises : TRUE].raised
         IN CASE e.cls = "ValidationError" -> 400
              [] e.cls = "NotImplementedError" -> 501
              [] e.cls = "HttpError" -> e.status.v
              [] OTHER -> 0
    ELSE 0

\* v is a response whose body is an encoded Error and whose status is the
\* Error's status, s.
ErrorResponse(v, s) ==
    /\ v.kind = "HttpResponse"
    /\ v.status = s
    /\ Len(v.body) = 3
    /\ v.body[1] = "dumps"
    /\ v.body[3].kind = "Error"
    /\ v.body[3].status = s

\* C8: with debug disabled, every dispatch that ends in an error (422, 406,
\* 405, validation failure, not implemented, HttpError, unhandled exception)
\* returns a response whose body has the Error shape and whose numeric status
\* is the Error's status.
C8_ErrorShape ==
    pc = "done" /\ ~debug_enabled /\ ErrorStatus # 0 =>
        result.how = "returned" /\ ErrorResponse(result.value, ErrorStatus)

\* The same for the errors dispatch_operation classifies only: a validation
\* failure ends with 400, a NotImplementedError with 501, an HttpError with
\* its status.
C8_ClassifiedErrorStatus ==
    pc = "done" /\ ~debug_enabled /\ ErrorStatus \in {400, 501, 405}
        /\ ~(\E s \in {422, 406, 405} : EarlyReturn(s)) =>
            result.how = "returned" /\ result.value.status = ErrorStatus

\* ------------------------------------------------------------------- C9

\* The calls made so far, handle_500 hooks aside: phase and object, in order.
Calls ==
    LET made == SelectSeq(log, LAMBDA ev : ev.ph # "handle_500")
    IN [k \in DOMAIN made |-> <<made[k].ph, made[k].mw>>]

\* Each hook of a phase once, in the order of the phase's hook tuple.
PhaseCalls(phase) == [k \in DOMAIN Hooks(phase) |-> <<phase, Hooks(phase)[k]>>]

\* The calls of a request up to the end of the dispatch stage.
DispatchStageCalls ==
    PhaseCalls("pre_request") \o PhaseCalls("pre_dispatch")
        \o PhaseCalls("op_pre_dispatch") \o << <<"execute", "callback">> >>
        \o PhaseCalls("op_post_dispatch") \o PhaseCalls("post_dispatch")

\* C9: for a request that reaches the callback, no hook and no callback
\* raising, the phases have run in this order when dispatch ends, each
\* exactly once: root pre-request, root pre-dispatch, operation
\* pre-dispatch, callback, operation post-dispatch, root post-dispatch, root
\* post-request.
C9_PhaseOrder ==
    pc = "done" /\ Invoked /\ Raises = {} =>
        Calls = DispatchStageCalls \o PhaseCalls("post_request")

\* The part of C9 that holds: when dispatch_operation returns, the phases
\* up to root post-dispatch have run in that order, each exactly once.
C9_DispatchStageOrder ==
    pc = "_dispatch_response" /\ Invoked /\ Raises = {} =>
        Calls = DispatchStageCalls

\* ------------------------------------------------------------------ C10

\* The path arguments the router matched, and what they have become after
\* the first k calls of the log made their writes.
Matched == [a \in {"id"} |-> "42"]
RECURSIVE ArgsAfter(_)
ArgsAfter(k) ==
    IF k = 0 THEN Matched
    ELSE LET before == ArgsAfter(k - 1)
             wr == log[k].wr
         IN IF wr = <<>> THEN before
            ELSE [a \in DOMAIN before \cup {wr[1]} |->
                     IF a = wr[1] THEN wr[2] ELSE before[a]]

\* C10: path_args is one shared object: what root pre-request, root
\* pre-dispatch and operation pre-dispatch hooks write to it is seen by
\* every hook called later and is passed to the callback as keyword
\* arguments.
C10_SharedPathArgs ==
    /\ \A k \in DOMAIN log :
          log[k].ph \in {"pre_request", "pre_dispatch", "op_pre_dispatch", "execute"}
              => log[k].seen = ArgsAfter(k - 1)
    /\ pc # "start" => path_args = ArgsAfter(Len(log))

\* A root pre-request hook added `user`, an operation pre-dispatch hook
\* rewrote `id`, and the callback was called with both.
C10_Witness ==
    \E k \in DOMAIN log :
        /\ log[k].ph = "execute"
        /\ log[k].seen = [a \in {"id", "user"} |-> IF a = "id" THEN "B" ELSE "A"]
        /\ \E j \in 1..(k - 1) :
              log[j].ph = "pre_request" /\ log[j].wr = <<"user", "A">>
        /\ \E j \in 1..(k - 1) :
              log[j].ph = "op_pre_dispatch" /\ log[j].wr = <<"id", "B">>

\* ------------------------------------------------------------------ C11

\* The calls, in order, through which the callback's result travels in the
\* dispatch stage, and those through which the response travels in dispatch.
ResultChain == EventsIn({"execute", "op_post_dispatch", "post_dispatch"})
ResponseChain == EventsIn({"post_request"})

\* Every call of a chain but the first was given what the call before it
\* returned.
Fed(chain) == \A k \in 2..Len(chain) : chain[k].given = chain[k - 1].ret

\* C11: the operation's post-dispatch hooks are applied to the callback's
\* result in sequence, each given what the one before returned, and what
\* Operation.__call__ returns is the last one's output (the callback's
\* result itself without such hooks); dispatch_operation goes on in the same
\* way with the root post-dispatch hooks, and dispatch does so with the root
\* post-request hooks on the response.
C11_PostHooksChained ==
    /\ Fed(ResultChain)
    /\ ResultChain # <<>> => ResultChain[1].ph = "execute"
    /\ pc \in {"op_post_dispatch", "post_dispatch", "dispatch_operation_else"}
          => resource = Last(ResultChain).ret
    /\ pc = "post_dispatch" /\ i = 1 =>
          LET op_hooks == EventsIn({"op_post_dispatch"})
          IN /\ Len(op_hooks) = Len(Hooks("op_post_dispatch"))
             /\ resource = (IF op_hooks = <<>> THEN EventsIn({"execute"})[1].ret
                            ELSE Last(op_hooks).ret)
    /\ pc = "_dispatch_response" /\ raised = NoException
          => /\ triple.resource = Last(ResultChain).ret
             /\ Len(EventsIn({"post_dispatch"})) = Len(Hooks("post_dispatch"))
    /\ Fed(ResponseChain)
    /\ pc \in {"post_request", "dispatch_else"} =>
          response = (IF ResponseChain = <<>> THEN response
                      ELSE Last(ResponseChain).ret)
    /\ pc = "done" /\ result.via = "else" =>
          /\ Len(ResponseChain) = Len(Hooks("post_request"))
          /\ ResponseChain # <<>> => result.value = Last(ResponseChain).ret

\* The callback returned an HttpResponse of its own; the operation's hook B,
\* then the root hooks B and A (post-dispatch runs in descending priority)
\* transformed it in turn, and the root post-request hook A was given the
\* outcome and returned what dispatch returned.
C11_Witness ==
    /\ pc = "done" /\ result.via = "else"
    /\ middleware = <<"A", "B">>
    /\ operation.middleware = <<"B", "Operation">>
    /\ ResultChain # <<>>
    /\ ResultChain[1].ret.kind = "HttpResponse"
    /\ result.value.kind = "HttpResponse"
    /\ result.value.trail = <<"B", "B", "A", "A">>

\* ------------------------------------------------------------------ C12

\* How often x occurs in seq.
Count(seq, x) == Cardinality({k \in DOMAIN seq : seq[k] = x})

\* C12: an Operation goes from unbound to bound at most once and never back:
\* whatever ResourceApi instantiations and bind_to_instance calls are made,
\* the bound instance, once set, is never replaced, and it is in the
\* Operation's middleware list exactly once.
C12_BoundOnce ==
    [][/\ op._binding # None => op'._binding = op._binding
       /\ op'._binding # None => Count(op'.middleware.list, op'._binding) = 1]_vars

\* The part of C12 that the code keeps: a bound Operation never becomes
\* unbound again, and its bound instance is in its middleware list.
C12_NeverUnbound ==
    [][/\ op._binding # None => op'._binding # None
       /\ op'._binding # None => Count(op'.middleware.list, op'._binding) >= 1]_vars

\* ------------------------------------------------------------------ C13

CallsOf(fn) == {k \in DOMAIN call.calls : call.calls[k].fn = fn}
CallbackReached == CallsOf("callback") # {}

\* C13: a call made after bind_to_instance(instance) runs the instance's
\* pre_dispatch hook before the callback and its post_dispatch hook after
\* it, and passes the instance as the callback's first argument, whether or
\* not the Operation was called before it was bound.
C13_BoundHooksRun ==
    call.via = "__call__" /\ call.binding # None /\ CallbackReached =>
       LET at == CHOOSE k \in CallsOf("callback") : TRUE
       IN /\ call.calls[at].positional[1] = call.binding
          /\ \E k \in 1..(at - 1) :
               call.calls[k] = Called("pre_dispatch", call.binding,
                                      <<"request", "path_args">>, EmptyDict,
                                      NoneResource)
          /\ call.raised = NoException =>
               \E k \in (at + 1)..Len(call.calls) :
                  /\ call.calls[k].fn = "post_dispatch"
                  /\ call.calls[k].of = call.binding

\* The part of C13 that the code keeps: the bound instance is the callback's
\* first argument, and its hooks run in every call of an Operation that was
\* bound before its first call.
C13_BindingPassed ==
    call.binding # None /\ CallbackReached =>
       LET at == CHOOSE k \in CallsOf("callback") : TRUE
       IN call.calls[at].positional[1] = call.binding

\* ------------------------------------------------------------------ C14

\* C14: execute calls the callback with the bound instance first, then the
\* request and the arguments, when the Operation is bound, and with the
\* request and the arguments only when it is not; what the callback returns
\* is what execute returns, and an exception of the callback comes out of
\* execute and of __call__ unchanged.
C14_Execute ==
    CallbackReached =>
       LET at == CHOOSE k \in CallsOf("callback") : TRUE
           callback == call.calls[at]
       IN /\ CallsOf("callback") = {at}
          /\ callback.positional =
                (IF call.binding # None THEN <<call.binding, "request">>
                 ELSE <<"request">>) \o call.args
          /\ callback.keywords = call.kwargs
          /\ call.outcome.raised # NoException =>
                /\ call.raised = call.outcome.raised
                /\ at = Len(call.calls)
          /\ call.via = "execute" /\ call.outcome.raised = NoException =>
                /\ call.raised = NoException
                /\ call.value = call.outcome.value

\* A bound Operation whose callback, given the instance, the request and a
\* positional argument, raised KeyError, which came out of execute.
C14_Witness ==
    /\ CallbackReached
    /\ call.via = "execute"
    /\ call.binding = "I1"
    /\ call.calls[1].positional = <<"I1", "request", "extra">>
    /\ call.raised = PlainException("KeyError", "item")

\* ------------------------------------------------------------------ C15

\* The path an Operation bound to an instance of the class a should have.
FinalizedPath(o, a) ==
    apply_args(o.url_path,
               IF key_field_attname(a.resource) # None
               THEN key_field_attname(a.resource) ELSE "resource_id")

\* C15: once an Operation (declared without a resource of its own) is bound
\* to a ResourceApi instance, its path has the key parameter named by the
\* key field's attribute name of the instance's resource, or resource_id
\* when that resource has no key field; the literal segments, the types and
\* the type arguments are those of the declared path.
C15_PathFinalized ==
    op._binding # None /\ op._resource = None => op.path = FinalizedPath(op, api)

\* The part of C15 that the code keeps: binding leaves the literal segments,
\* the types and the type arguments of the path as declared.
C15_PathShape ==
    /\ Len(op.path) = Len(op.url_path)
    /\ \A k \in DOMAIN op.path :
         /\ op.path[k].type = op.url_path[k].type
         /\ op.path[k].type_args = op.url_path[k].type_args
         /\ ~IsParam(op.path[k]) => op.path[k] = op.url_path[k]

\* ------------------------------------------------------------------ C16

\* The set of the methods an Operation accepts.
MethodSet(o) == Range(o.methods)

\* C16: two Operations are equal exactly when their finalized paths are
\* equal and the sets of their methods are equal, whatever their callbacks
\* and whatever the order in which the methods were given.
C16_Equality ==
    compared.result # "not compared" =>
       (compared.result = "True"
          <=> /\ compared.self.path = compared.other.path
              /\ MethodSet(compared.self) = MethodSet(compared.other))

\* The part of C16 that the code keeps: Operations with equal finalized paths
\* and the same methods in the same order are equal whatever their callbacks,
\* and equal Operations have equal paths and equal sets of methods.
C16_EqualityOrdered ==
    compared.result # "not compared" =>
       /\ compared.result = "True"
            <=> /\ compared.self.path = compared.other.path
                /\ compared.self.methods = compared.other.methods
       /\ compared.result = "True"
            => MethodSet(compared.self) = MethodSet(compared.other)

\* ------------------------------------------------------------------ C17

\* The sort keys grow with the order of construction.
SortKeysIncrease ==
    \A j, k \in DOMAIN operations :
       j < k => operations[j].sort_key < operations[k].sort_key

\* The class Sub lists the Operations of both bodies in the order of their
\* declaration, each once.
ListedInOrder ==
    classes.body = "created" =>
       classes.Sub._operations = [k \in 1..Len(operations) |-> k]

\* C17: every Operation gets, when constructed, a sort key greater than
\* those of all Operations constructed before it, and a ResourceApi class
\* whose operations were declared as O1, O2, O3, some in a base class and
\* some in a subclass, lists them and flattens them in exactly that order,
\* each once.
C17_DeclarationOrder ==
    /\ SortKeysIncrease
    /\ ListedInOrder
    /\ yielded.called =>
          /\ yielded.raised = NoException
          /\ Len(yielded.items) = Len(operations)
          /\ \A k \in DOMAIN yielded.items : yielded.items[k].operation = k

\* The part of C17 that the code keeps: the sort keys and the list of the
\* class.
C17_ListedInOrder == SortKeysIncrease /\ ListedInOrder

\* ------------------------------------------------------------------ C20

\* The integer a query value stands for, or the default when it is absent.
QueryInt(value, default) == IF value = Absent THEN default ELSE int(value)
Max(a, b) == IF a >= b THEN a ELSE b
Least(a, b) == IF a <= b THEN a ELSE b

\* The offset and the limit the callback of the listing should be given.
ClampedOffset == Max(0, QueryInt(listing.request.GET.offset, listing.self.default_offset))
ClampedLimit ==
    LET limit == Max(1, QueryInt(listing.request.GET.limit, listing.self.default_limit))
    IN IF listing.self.max_limit.tag = "int"
       THEN Least(limit, listing.self.max_limit.v) ELSE limit

IntegerQuery ==
    /\ listing.request.GET.offset = Absent \/ IsInteger(listing.request.GET.offset)
    /\ listing.request.GET.limit = Absent \/ IsInteger(listing.request.GET.limit)

ClampedCall ==
    /\ Len(listing.result.called) = 1
    /\ listing.result.called[1].keywords =
          [offset |-> ClampedOffset, limit |-> ClampedLimit]
    /\ ClampedOffset >= 0
    /\ ClampedLimit >= 1
    /\ listing.self.max_limit.tag = "int" => ClampedLimit <= listing.self.max_limit.v

\* C20: ListOperation.execute passes to the callback, as the keyword
\* arguments offset and limit, max(0, offset) and min(max(1, limit),
\* max_limit) (max(1, limit) without max_limit), where offset and limit are
\* the integer query parameters of the request or the defaults when absent.
C20_ListingClamp ==
    listing.executed /\ IntegerQuery => ClampedCall

\* The part of C20 that the code keeps: the clamp, for a request object that
\* has the attribute GET.
C20_ClampWithGET ==
    listing.executed /\ IntegerQuery /\ "GET" \in RequestAttributes(listing.request.cls)
       => ClampedCall

\* ------------------------------------------------------------------ C21

\* The request of the listing carries an offset or a limit that is no number.
NonNumericQuery ==
    \/ listing.request.GET.offset # Absent /\ ~IsInteger(listing.request.GET.offset)
    \/ listing.request.GET.limit # Absent /\ ~IsInteger(listing.request.GET.limit)

\* C21: a request to a ListOperation whose offset or limit is not a number
\* ends with a 400-class error response: dispatch_operation returns (no
\* exception leaves it), the status of what it returns is in 400..499, and
\* the callback was not invoked. Stated for a request that has GET, so that
\* the missing attribute of C20 plays no part.
C21_NonNumericIs400 ==
    listing.executed /\ listing.request.cls = "GETRequest" /\ NonNumericQuery
        => /\ listing.dispatched.raised = NoException
           /\ listing.dispatched.triple.status.v \in 400..499
           /\ listing.result.called = <<>>

\* What the code does instead: the ValueError of int() reaches the last
\* except clause, which re-raises it in debug mode and otherwise answers
\* with the 500 of handle_500; the callback is not invoked.
C21_NonNumericIs500 ==
    listing.executed /\ listing.request.cls = "GETRequest" /\ NonNumericQuery
        => /\ listing.result.raised.cls = "ValueError"
           /\ listing.result.called = <<>>
           /\ IF listing.debug_enabled
              THEN listing.dispatched.raised = listing.result.raised
              ELSE /\ listing.dispatched.raised = NoException
                   /\ listing.dispatched.handled
                   /\ listing.dispatched.triple.status.v = 500

\* ------------------------------------------------------------------ C22

\* The integer a status stands for, 0 for None.
StatusInt(status) == status.v

\* The response _dispatch is to assemble for resource r of the triple: the
\* codec's encoding as body, the collected headers with the codec's content
\* type, the integer status, 200 when none was given.
Assembled(r) ==
    [HttpResponse(<<"dumps", request.response_codec, r>>,
                  IF StatusInt(triple.status) = 0 THEN HTTPStatus(200) ELSE triple.status,
                  triple.headers)
     EXCEPT !.headers = SetItem(@, "Content-Type", request.response_codec)]

\* C22: when dispatch_operation yields a raw HttpResponse, _dispatch returns
\* that same object without encoding; when it yields a resource, _dispatch
\* returns a response with the encoded resource as body, the Content-Type of
\* the response codec, the collected headers and an integer status (200 when
\* none was given).
C22_ResponseAssembly ==
    [][pc = "_dispatch_response" =>
          IF triple.resource.kind = "HttpResponse"
          THEN response' = triple.resource /\ pc' # "dispatch_except"
          ELSE triple.resource.kind # "None" =>
                  response' = Assembled(triple.resource) /\ pc' # "dispatch_except"]_vars

\* What the code does: the raw HttpResponse is returned as it is, None gives
\* a response without body (204 when no status was given) with the collected
\* headers, and encoding a resource raises AttributeError.
C22_RawOrAttributeError ==
    [][pc = "_dispatch_response" =>
          IF triple.resource.kind = "HttpResponse"
          THEN response' = triple.resource /\ pc' # "dispatch_except"
          ELSE IF triple.resource.kind = "None"
          THEN /\ response'.body = <<>>
               /\ response'.headers = triple.headers
               /\ response'.status =
                      (IF StatusInt(triple.status) = 0 THEN 204 ELSE StatusInt(triple.status))
               /\ pc' # "dispatch_except"
          ELSE /\ pc' = "dispatch_except"
               /\ raised'.cls = "AttributeError"
               /\ response' = response]_vars

\* ------------------------------------------------------------------ C23

\* A resolver's result without its parameters: what stands before the first
\* ";", without the blanks around it; empty for None.
Stripped(v) ==
    IF v = NoneValue THEN <<>>
    ELSE LET semis == {k \in DOMAIN v : v[k] = ";"}
             cut == IF semis = {} THEN Len(v) ELSE Min(semis) - 1
             kept == {k \in 1..cut : v[k] # " "}
         IN IF kept = {} THEN <<>>
            ELSE SubSeq(v, Min(kept), CHOOSE k \in kept : \A j \in kept : j <= k)

\* The stripped results of the resolvers of the chain, were each consulted,
\* and the positions of those that are not empty.
StrippedResults ==
    [k \in DOMAIN resolution.type_resolvers |->
        Stripped(Resolve(resolution.type_resolvers[k], resolution.request))]
Matches == {k \in DOMAIN StrippedResults : StrippedResults[k] # <<>>}

\* The first match decides and nothing after it is consulted.
FirstMatchDecides ==
    Matches # {} =>
        /\ resolution.result.value = StrippedResults[Min(Matches)]
        /\ resolution.result.called = SubSeq(resolution.type_resolvers, 1, Min(Matches))

\* C23, as claimed: resolve_content_type returns the first result that is
\* non-empty after its parameters are stripped, consults no resolver after
\* it, and gives the caller-supplied default when every resolver yields
\* nothing.
C23_Resolution ==
    resolution.resolved =>
        /\ FirstMatchDecides
        /\ Matches = {} => resolution.result.value = resolution.default

\* C23, amended: resolve_content_type returns the first result that is
\* non-empty after its parameters are stripped and consults no resolver
\* after it; when every resolver yields nothing, every resolver was
\* consulted and the result is None, whatever default the caller has in
\* mind: a default is a last resolver of the chain or nothing.
C23_ResolutionOrNone ==
    resolution.resolved =>
        /\ FirstMatchDecides
        /\ Matches = {} =>
              /\ resolution.result.value = NoneValue
              /\ resolution.result.called = resolution.type_resolvers

\* A chain [A, B, C] in which A yields nothing and B yields
\* `application/json; charset=utf8` resolved to `application/json`, with C,
\* which yields text/html, not consulted.
C23_Witness ==
    /\ resolution.resolved
    /\ resolution.type_resolvers =
          <<specific_default(NoneValue),
            specific_default(<<"application/json", ";", " ", "charset=utf8">>),
            specific_default(<<"text/html">>)>>
    /\ resolution.result.value = JSON
    /\ Len(resolution.result.called) = 2

\* ------------------------------------------------------------------ C24

\* The content type a header of the request gives: its value without
\* parameters, empty when the header is absent or empty.
HeaderType(h) ==
    IF h \in DOMAIN resolution.request.headers
    THEN Stripped(resolution.request.headers[h]) ELSE <<>>

\* first when it is there, else second when it is there, else JSON
Precedence(first, second) ==
    IF HeaderType(first) # <<>> THEN HeaderType(first)
    ELSE IF HeaderType(second) # <<>> THEN HeaderType(second)
    ELSE JSON

\* C24: with the standard chains the request content type is the
\* Content-Type header when present, else the Accepts header when present,
\* else JSON; the response content type is the Accepts header when present,
\* else the Content-Type header when present, else JSON; a request with
\* Accepts: application/json and no Content-Type gets the JSON codec for
\* both. (A header is present when it has a value that is not empty.)
C24_StandardChains ==
    resolution.resolved =>
        /\ resolution.type_resolvers = request_type_resolvers =>
              resolution.result.value = Precedence("content-type", "accepts")
        /\ resolution.type_resolvers = response_type_resolvers =>
              resolution.result.value = Precedence("accepts", "content-type")
        /\ resolution.request.headers = [h \in {"accepts"} |-> JSON] =>
              /\ negotiate(resolution.request).status = 0
              /\ negotiate(resolution.request).request.request_codec = JSON
              /\ negotiate(resolution.request).request.response_codec = JSON

\* A request with Content-Type: text/plain; charset=utf8 and Accepts:
\* application/xml went through the request chain, which gave text/plain.
C24_Witness ==
    /\ resolution.resolved
    /\ resolution.type_resolvers = <<content_type_header, accepts_header,
                                     specific_default(JSON)>>
    /\ resolution.request.headers =
          Headers(<<"text/plain", ";", " ", "charset=utf8">>, <<"application/xml">>)
    /\ resolution.result.value = <<"text/plain">>

\* ------------------------------------------------------------------ C25

\* The pieces of the path string between its slashes.
TextPieces == split_slash(url_path.text)

HasBrace(piece) == \E k \in DOMAIN piece : piece[k] \in {"{", "}"}

\* piece is written as the default formatter writes a parameter:
\* {name:TypeName} or {name:TypeName:arg}, TypeName a member of DataType.
DefaultForm(piece) ==
    /\ Len(piece) >= 5
    /\ piece[1] = "{" /\ piece[Len(piece)] = "}"
    /\ \E k \in 2..(Len(piece) - 3) :
         /\ piece[2] \in LetterTokens
         /\ \A j \in 2..k : piece[j] \in WordTokens
         /\ piece[k + 1] = ":"
         /\ piece[k + 2] \in DataType
         /\ \/ k + 3 = Len(piece)
            \/ /\ piece[k + 3] = ":"
               /\ k + 5 <= Len(piece)
               /\ \A j \in (k + 4)..(Len(piece) - 1) : piece[j] \in WordTokens \cup {":"}

NoTrailingSlash == url_path.text = <<>> \/ url_path.text[Len(url_path.text)] # "/"

LiteralOnly == \A k \in DOMAIN TextPieces : ~HasBrace(TextPieces[k])

\* Every piece with a brace is in the default formatter's form, and there
\* is one.
Parameterized ==
    /\ \E k \in DOMAIN TextPieces : HasBrace(TextPieces[k])
    /\ \A k \in DOMAIN TextPieces : HasBrace(TextPieces[k]) => DefaultForm(TextPieces[k])

RoundTrips ==
    /\ url_path.parsed.raised = NoException
    /\ url_path.formatted.called =>
          /\ url_path.formatted.raised = NoException
          /\ url_path.formatted.value = url_path.text

\* C25: for every literal-only path string without trailing slash, and for
\* every path string without trailing slash whose parameters are written in
\* the default formatter's form, parse followed by format gives the string
\* back.
C25_RoundTrip ==
    url_path.parsed.called /\ NoTrailingSlash /\ (LiteralOnly \/ Parameterized)
        => RoundTrips

\* What the code does: the literal-only strings round-trip, and formatting
\* a parsed path that has a parameter raises AttributeError.
C25_LiteralRoundTrip ==
    /\ url_path.parsed.called /\ NoTrailingSlash /\ LiteralOnly => RoundTrips
    /\ url_path.formatted.called /\ ~LiteralOnly =>
          url_path.formatted.raised.cls = "AttributeError"

\* ------------------------------------------------------------------ C26

\* t is an identifier; t is an argument.
IsIdentifier(t) ==
    t # <<>> /\ t[1] \in LetterTokens /\ \A j \in DOMAIN t : t[j] \in WordTokens
IsArgument(t) == t # <<>> /\ \A j \in DOMAIN t : t[j] \in WordTokens \cup {":"}

Inside(piece) == SubSeq(piece, 2, Len(piece) - 1)
Braced(piece) == Len(piece) >= 2 /\ piece[1] = "{" /\ piece[Len(piece)] = "}"

\* The ways to read the inside of a piece by the grammar name[:type[:arg]]:
\* the type it names, None when the type is omitted.
GrammarTypes(piece) ==
    LET body == Inside(piece)
        colons == {k \in DOMAIN body : body[k] = ":"}
    IN IF ~Braced(piece) THEN {}
       ELSE (IF IsIdentifier(body) THEN {NoneValue} ELSE {})
            \cup {SubSeq(body, k + 1, Len(body)) : k \in
                     {c \in colons : /\ IsIdentifier(SubSeq(body, 1, c - 1))
                                     /\ IsIdentifier(SubSeq(body, c + 1, Len(body)))}}
            \cup {SubSeq(body, km[1] + 1, km[2] - 1) : km \in
                     {x \in colons \X colons :
                        /\ x[1] < x[2]
                        /\ IsIdentifier(SubSeq(body, 1, x[1] - 1))
                        /\ IsIdentifier(SubSeq(body, x[1] + 1, x[2] - 1))
                        /\ IsArgument(SubSeq(body, x[2] + 1, Len(body)))}}

MatchesGrammar(piece) == GrammarTypes(piece) # {}

\* piece matches the grammar and names a type that is no member of DataType.
UnknownType(piece) ==
    \E t \in GrammarTypes(piece) : t # NoneValue /\ ~(Len(t) = 1 /\ t[1] \in DataType)

\* The pieces parse looks at: those of the string without its trailing
\* slashes.
ParsedPieces == split_slash(rstrip_slash(url_path.text))

\* C26: parse fails with a parse error (ValueError) when a piece with a
\* brace does not match the grammar name[:type[:arg]] or names a type that
\* is no member of DataType; a piece {name} gives a parameter of type
\* Integer.
C26_ParseErrors ==
    url_path.parsed.called /\ url_path.text # <<>> =>
        /\ (\E k \in DOMAIN ParsedPieces :
               /\ HasBrace(ParsedPieces[k])
               /\ ~MatchesGrammar(ParsedPieces[k]) \/ UnknownType(ParsedPieces[k]))
              => url_path.parsed.raised.cls = "ValueError"
        /\ url_path.parsed.raised = NoException =>
              \A k \in DOMAIN ParsedPieces :
                 NoneValue \in GrammarTypes(ParsedPieces[k])
                    => url_path.parsed.value[k].type = "Integer"

\* What the code does: parse raises ValueError exactly when a piece with a
\* brace is not {name}, {name:arg} or {name:type:arg} with name an
\* identifier and arg a run of argument characters; the type of every
\* parameter it yields is a typing.Type alias, whatever type is named.
C26_ParseAsWritten ==
    url_path.parsed.called /\ url_path.text # <<>> =>
        /\ url_path.parsed.raised.cls = "ValueError" <=>
              \E k \in DOMAIN ParsedPieces :
                 LET piece == ParsedPieces[k]
                     colons == {c \in DOMAIN Inside(piece) : Inside(piece)[c] = ":"}
                 IN /\ HasBrace(piece)
                    /\ ~(/\ Braced(piece)
                         /\ \/ IsIdentifier(Inside(piece))
                            \/ \E c \in colons :
                                  /\ IsIdentifier(SubSeq(Inside(piece), 1, c - 1))
                                  /\ IsArgument(SubSeq(Inside(piece), c + 1,
                                                       Len(Inside(piece)))))
        /\ url_path.parsed.raised.cls \in {"None", "ValueError"}
        /\ url_path.parsed.raised = NoException =>
              \A k \in DOMAIN ParsedPieces :
                 HasBrace(ParsedPieces[k]) =>
                    url_path.parsed.value[k].type = "typing.Type[...]"

\* ------------------------------------------------------------------ C27

\* The first node of the path is the empty literal.
StartsWithEmptyLiteral(path) ==
    Len(path) >= 1 /\ path[1].type = "str" /\ path[1].name = ""

\* C27: a concatenation whose right operand is absolute fails with
\* ValueError, whatever the left operand; otherwise the result has the nodes
\* of the left operand followed by those of the right one; the operands are
\* as they were constructed.
C27_Concatenation ==
    /\ url_path.sum.called =>
          IF StartsWithEmptyLiteral(url_path.right)
          THEN url_path.sum.raised.cls = "ValueError"
          ELSE /\ url_path.sum.raised = NoException
               /\ Len(url_path.sum.value) = Len(url_path.left) + Len(url_path.right)
               /\ \A k \in 1..Len(url_path.left) : url_path.sum.value[k] = url_path.left[k]
               /\ \A k \in 1..Len(url_path.right) :
                     url_path.sum.value[Len(url_path.left) + k] = url_path.right[k]
    /\ <<url_path.self, url_path.other>> = url_path.constructed

\* The absolute /api was added to the absolute /api, which failed, the
\* operands being as before.
C27_Witness ==
    /\ url_path.sum.called
    /\ url_path.left = <<Literal(""), Literal("api")>>
    /\ url_path.right = <<Literal(""), Literal("api")>>
    /\ url_path.sum.raised.cls = "ValueError"
    /\ url_path.self = url_path.left

\* ------------------------------------------------------------------ C28

\* The list of key in dict d, empty when the key is absent.
ListOf(d, key) == IF key \in DOMAIN d THEN d[key] ELSE <<>>

\* The keys other than that of the last call are as they were before it.
OthersUntouched ==
    \A key \in Keys \ {multi_dict.last.key} :
       /\ key \in DOMAIN multi_dict.d <=> key \in DOMAIN multi_dict.last.before
       /\ ListOf(multi_dict.d, key) = ListOf(multi_dict.last.before, key)

\* get(key) and d[key] both give value v.
Reads(key, v) ==
    /\ MultiValueDict_get(multi_dict.d, key, NoValue).raised = NoException
    /\ MultiValueDict_get(multi_dict.d, key, NoValue).returned = Value(v)
    /\ MultiValueDict__getitem__(multi_dict.d, key).raised = NoException
    /\ MultiValueDict__getitem__(multi_dict.d, key).returned = Value(v)

\* C28: after add(k, v), get(k) and d[k] give v and getlist(k) is the list
\* before the call followed by v; after d[k] = v they give v and getlist(k)
\* is [v]; so after a sequence of both, getlist(k) is the value of the last
\* set followed by the values added after it. The other keys are as they
\* were, and getlist of an absent key is the empty list, not an error.
C28_LastWriteWins ==
    /\ multi_dict.last.method = "add" =>
          /\ Reads(multi_dict.last.key, multi_dict.last.value)
          /\ MultiValueDict_getlist(multi_dict.d, multi_dict.last.key).returned =
                List(Append(ListOf(multi_dict.last.before, multi_dict.last.key),
                            multi_dict.last.value))
          /\ OthersUntouched
    /\ multi_dict.last.method = "__setitem__" =>
          /\ Reads(multi_dict.last.key, multi_dict.last.value)
          /\ MultiValueDict_getlist(multi_dict.d, multi_dict.last.key).returned =
                List(<<multi_dict.last.value>>)
          /\ OthersUntouched
    /\ \A key \in Keys \ DOMAIN multi_dict.d :
          /\ MultiValueDict_getlist(multi_dict.d, key).raised = NoException
          /\ MultiValueDict_getlist(multi_dict.d, key).returned = List(<<>>)

\* On an empty dict, d['a'] = 2, then add('a', 1), then add('a', 2):
\* getlist('a') is [2, 1, 2] and get('a') is 2.
C28_Witness ==
    /\ multi_dict.calls = 3
    /\ multi_dict.last.method = "add"
    /\ multi_dict.last.before = [k \in {"a"} |-> <<2, 1>>]
    /\ MultiValueDict_getlist(multi_dict.d, "a").returned = List(<<2, 1, 2>>)
    /\ MultiValueDict_get(multi_dict.d, "a", NoValue).returned = Value(2)

\* ------------------------------------------------------------------ C29

\* The last call was pop(key) or pop(key, default) and it ended as pop on
\* an absent key is to end: with the default when there is one, else with a
\* KeyError.
DefaultOrKeyError ==
    IF multi_dict.last.default.defined
    THEN /\ multi_dict.last.raised = NoException
         /\ multi_dict.last.returned = Value(multi_dict.last.default.v)
    ELSE IsInstance(multi_dict.last.raised, "KeyError")

\* C29: pop(key) on a present key returns the last value of the key and
\* removes the key with all its values; on an absent key it returns the
\* default when one is given and raises a KeyError otherwise; the rest of
\* the dict is unchanged.
C29_Pop ==
    multi_dict.last.method = "pop" =>
        IF multi_dict.last.key \in DOMAIN multi_dict.last.before
        THEN /\ multi_dict.last.before[multi_dict.last.key] # <<>>
             /\ multi_dict.last.raised = NoException
             /\ multi_dict.last.returned =
                   Value(LastOf(multi_dict.last.before[multi_dict.last.key]))
             /\ multi_dict.d = DelItem(multi_dict.last.before, multi_dict.last.key)
        ELSE /\ DefaultOrKeyError
             /\ multi_dict.d = multi_dict.last.before

\* What the code does: the same for a key that is absent or has values; for
\* a key that is present with an empty list, pop removes the key and ends
\* as for an absent key.
C29_PopOfValues ==
    multi_dict.last.method = "pop" =>
        IF multi_dict.last.key \notin DOMAIN multi_dict.last.before
        THEN DefaultOrKeyError /\ multi_dict.d = multi_dict.last.before
        ELSE IF multi_dict.last.before[multi_dict.last.key] # <<>>
        THEN /\ multi_dict.last.raised = NoException
             /\ multi_dict.last.returned =
                   Value(LastOf(multi_dict.last.before[multi_dict.last.key]))
             /\ multi_dict.d = DelItem(multi_dict.last.before, multi_dict.last.key)
        ELSE /\ DefaultOrKeyError
             /\ multi_dict.d = DelItem(multi_dict.last.before, multi_dict.last.key)

\* ------------------------------------------------------------------ C30

\* C30: every key of the dict has a list that is not empty, so that d[k]
\* succeeds for every key k of it and items() succeeds.
C30_NonEmptyLists ==
    /\ \A key \in DOMAIN multi_dict.d : multi_dict.d[key] # <<>>
    /\ \A key \in DOMAIN multi_dict.d :
          MultiValueDict__getitem__(multi_dict.d, key).raised = NoException
    /\ MultiValueDict_items(multi_dict.d).raised = NoException

\* What the code does: construction, add, set, setdefault, pop and poplist
\* give no key an empty list; setlist with an empty list and setlistdefault
\* with an empty or no default do, and then d[k] raises a KeyError and
\* items() an IndexError.
C30_EmptyBySetlist ==
    /\ multi_dict.last.method = "__init__" =>
          \A key \in DOMAIN multi_dict.d : multi_dict.d[key] # <<>>
    /\ \A key \in DOMAIN multi_dict.d :
          multi_dict.d[key] = <<>> =>
             /\ \/ ListOf(multi_dict.last.before, key) = <<>>
                   /\ key \in DOMAIN multi_dict.last.before
                \/ /\ multi_dict.last.method \in {"setlist", "setlistdefault"}
                   /\ multi_dict.last.key = key
                   /\ multi_dict.last.list = <<>>
             /\ IsInstance(MultiValueDict__getitem__(multi_dict.d, key).raised, "KeyError")
             /\ MultiValueDict_items(multi_dict.d).raised.cls = "IndexError"

\* ------------------------------------------------------------------ C18

\* The concatenation of a sequence of sequences.
RECURSIVE Concat(_)
Concat(seqs) == IF seqs = <<>> THEN <<>> ELSE seqs[1] \o Concat(Tail(seqs))

\* The leaf Operations under the child k of the root, each with the prefixes
\* from the root down to it.
LeavesUnder(k) ==
    LET child == root.children[k]
    IN IF child.kind = "Operation"
       THEN <<[prefixes |-> root.path_prefix, op |-> child.op]>>
       ELSE [j \in DOMAIN child.children |->
               [prefixes |-> root.path_prefix \o child.path_prefix,
                op |-> child.children[j].op]]

\* The leaf Operations of the tree in child-list order.
TreeLeaves == Concat([k \in DOMAIN root.children |-> LeavesUnder(k)])

\* The pairs the tree should flatten to.
ExpectedItems ==
    [k \in DOMAIN TreeLeaves |->
       [path |-> (IF base_path.given THEN base_path.value ELSE NoPath)
                    \o TreeLeaves[k].prefixes \o TreeLeaves[k].op.path,
        operation |-> TreeLeaves[k].op]]

\* No path that is appended to another one is absolute.
NoAbsoluteOperand ==
    /\ base_path.given => ~Absolute(root.path_prefix)
    /\ \A k \in DOMAIN root.children :
         root.children[k].kind = "ApiContainer" => ~Absolute(root.children[k].path_prefix)
    /\ \A k \in DOMAIN TreeLeaves : ~Absolute(TreeLeaves[k].op.path)

RECURSIVE FirstOccurrences(_)
FirstOccurrences(seq) ==
    IF seq = <<>> THEN <<>>
    ELSE LET front == FirstOccurrences(SubSeq(seq, 1, Len(seq) - 1))
             x == seq[Len(seq)]
         IN IF x \in Range(front) THEN front ELSE Append(front, x)

\* The pairs operation_items gives for the tree.
FlattenedItems == ApiContainer_operation_items(root, base_path)

====
